---- MODULE Spec2Model ----
(***************************************************************************)
(* Model of the Excel file comparator: the value matcher and mismatch      *)
(* classifier (comparison_engine.py), the single-table comparator          *)
(* (file_comparison.py), the schema normalizer (column_processor.py) and   *)
(* the multi-sheet run (main_multisheet.py, sheet_handler.py).             *)
(*                                                                         *)
(* Text is a sequence of code points.  A Python float is an IEEE-754       *)
(* double: a sign-free record of an exponent and PREC mantissa bits,       *)
(* obtained from a decimal by round-to-nearest-even, and subtracted with   *)
(* round-to-nearest-even, as the interpreter does.                         *)
(***************************************************************************)
EXTENDS Integers, Sequences, FiniteSets, TLC

VARIABLES
    pc,                 \* position in the run
    cfg,                \* config (main_multisheet.py:74)
    val_A, val_B,       \* the two values handed to values_match
    match,              \* what values_match returned
    issue,              \* what analyze_mismatch returned
    df_A, df_B,         \* reference table and candidate table
    formulas_A, formulas_B,
    df_B_unaligned,     \* df_B as it was handed to align_columns_to_reference
    alignment_info,     \* what align_columns_to_reference returned
    row_idx, col_idx,   \* loop counters of the cell-by-cell comparison
    results_list,       \* the records appended by add_result
    summary_dict,       \* the counters of the table being compared
    differences_found,  \* the local counter of compare_single_file
    sheets_A,           \* the reference file: sheet name -> dataframe, formulas
    sheets_B_raw,       \* the candidate file: sheet name -> dataframe, formulas
    sheet_comparison,   \* what compare_sheet_structures returned
    remaining,          \* the common sheets the loop has not visited yet
    sheet_name,         \* the sheet being compared
    compared,           \* the sheets compare_single_file was called for, in call order
    results,            \* the records of the run (main_multisheet.py:87)
    file_summary,       \* the counters of the file being compared
    summary,            \* file name -> counters (main_multisheet.py:88)
    sheet_summaries,    \* sheet name -> sheet_summary as compare_single_file left it
    df_read,            \* the table handed to remove_blank_columns
    removed_cols_B,     \* the names remove_blank_columns returned
    folder_a_data,      \* the reference files as read: file name -> sheets
    folder_b_path,      \* the candidate folder: file name -> file
    pending,            \* the candidate files the loop has not visited yet
    filename,           \* the candidate file being compared
    reads,              \* the candidate files a read was made of, in order
    summary_full        \* the summary of the finished run that kept its records

vmVars  == <<val_A, val_B, match, issue>>
cmpVars == <<df_A, df_B, formulas_A, formulas_B, df_B_unaligned, alignment_info,
             row_idx, col_idx, results_list, summary_dict, differences_found>>
runVars == <<sheets_A, sheets_B_raw, sheet_comparison, remaining, sheet_name,
             compared, results, file_summary, summary, sheet_summaries>>
prepVars == <<df_read, removed_cols_B>>
folderVars == <<folder_a_data, folder_b_path, pending, filename, reads, summary_full>>
vars    == <<pc, cfg, vmVars, cmpVars, runVars, prepVars, folderVars>>

----------------------------------------------------------------------------
(* Bounds of the model *)

\* floats of the value domain are the doubles nearest 1.00 .. 1.00 + MaxStep/100
MaxStep == 2

\* tables have 1..MaxRows data rows and 1..MaxCols columns
MaxRows == 2
MaxCols == 2

\* a file has at most MaxSheets sheets
MaxSheets == 3

----------------------------------------------------------------------------
(* Text: sequences of code points *)

T_empty == << >>
T_space == <<32>>
T_Hello == <<72, 101, 108, 108, 111>>
T_hello == <<104, 101, 108, 108, 111>>
T_Alice == <<65, 108, 105, 99, 101>>
T_alice == <<97, 108, 105, 99, 101>>
T_x     == <<120>>
T_xsp   == <<120, 32>>
T_one   == <<49>>
T_inf   == <<105, 110, 102>>

\* str.isspace for the ASCII range (what str.strip() removes)
IsSpace(c) == c \in {9, 10, 11, 12, 13, 28, 29, 30, 31, 32}

RECURSIVE LStrip(_)
LStrip(s) == IF s = << >> THEN s
             ELSE IF IsSpace(Head(s)) THEN LStrip(Tail(s)) ELSE s

RECURSIVE RStrip(_)
RStrip(s) == IF s = << >> THEN s
             ELSE IF IsSpace(s[Len(s)]) THEN RStrip(SubSeq(s, 1, Len(s) - 1)) ELSE s

\* str.strip()
Strip(s) == RStrip(LStrip(s))

\* str.lower() on one ASCII character
LowerChar(c) == IF c >= 65 /\ c <= 90 THEN c + 32 ELSE c

\* str.lower()
Lower(s) == [i \in 1..Len(s) |-> LowerChar(s[i])]

\* decimal digits of a natural number, as text
RECURSIVE Digits(_)
Digits(n) == IF n < 10 THEN <<48 + n>> ELSE Digits(n \div 10) \o <<48 + (n % 10)>>

----------------------------------------------------------------------------
(* IEEE-754 doubles (non-negative, finite): [z, e, m]                      *)
(*   z: the value is zero;  e: exponent of the leading bit;                *)
(*   m: PREC bits, most significant first, m[1] = 1 (no bits when z).      *)

\* significand precision of a Python float
PREC == 53

Zeros(k) == [i \in 1..k |-> 0]

DZero == [z |-> TRUE, e |-> 0, m |-> << >>]

\* bring n/d into [1, 2): <<n', d', e>> with n/d = (n'/d') * 2^e
RECURSIVE Scale(_, _, _)
Scale(n, d, e) == IF n >= 2 * d THEN Scale(n, 2 * d, e + 1)
                  ELSE IF n < d THEN Scale(2 * n, d, e - 1)
                  ELSE <<n, d, e>>

\* k further bits of the binary expansion of r/d (r < d), by long division
RECURSIVE DivBits(_, _, _)
DivBits(r, d, k) ==
    IF k = 0 THEN << >>
    ELSE IF 2 * r >= d THEN <<1>> \o DivBits(2 * r - d, d, k - 1)
    ELSE <<0>> \o DivBits(2 * r, d, k - 1)

\* the remainder left after those k bits
RECURSIVE DivRem(_, _, _)
DivRem(r, d, k) ==
    IF k = 0 THEN r
    ELSE IF 2 * r >= d THEN DivRem(2 * r - d, d, k - 1)
    ELSE DivRem(2 * r, d, k - 1)

\* bits + 1 (most significant first); the carry out is dropped by the caller's test
RECURSIVE Inc(_)
Inc(bits) ==
    IF bits = << >> THEN << >>
    ELSE LET n == Len(bits)
         IN  IF bits[n] = 0 THEN SubSeq(bits, 1, n - 1) \o <<1>>
             ELSE Inc(SubSeq(bits, 1, n - 1)) \o <<0>>

AllOnes(bits) == \A i \in 1..Len(bits) : bits[i] = 1

\* round a PREC-bit significand up by one unit in the last place
RoundUp(e, bits) ==
    IF AllOnes(bits) THEN [z |-> FALSE, e |-> e + 1, m |-> <<1>> \o Zeros(PREC - 1)]
    ELSE [z |-> FALSE, e |-> e, m |-> Inc(bits)]

\* the double nearest n/d (round half to even): float(<decimal literal>)
DoubleOfRatio(n, d) ==
    IF n = 0 THEN DZero
    ELSE LET s    == Scale(n, d, 0)
             bits == <<1>> \o DivBits(s[1] - s[2], s[2], PREC - 1)
             rem  == DivRem(s[1] - s[2], s[2], PREC - 1)
             up   == \/ 2 * rem > s[2]
                     \/ 2 * rem = s[2] /\ bits[PREC] = 1
         IN  IF up THEN RoundUp(s[3], bits)
             ELSE [z |-> FALSE, e |-> s[3], m |-> bits]

\* lexicographic comparison of equal-length bit strings: a < b
RECURSIVE BitsLess(_, _)
BitsLess(a, b) ==
    IF a = << >> THEN FALSE
    ELSE IF Head(a) # Head(b) THEN Head(a) < Head(b)
    ELSE BitsLess(Tail(a), Tail(b))

\* x < y on doubles
DLess(x, y) ==
    IF x.z THEN ~y.z
    ELSE IF y.z THEN FALSE
    ELSE IF x.e # y.e THEN x.e < y.e
    ELSE BitsLess(x.m, y.m)

\* x <= y on doubles
DLeq(x, y) == ~DLess(y, x)

\* a - b on equal-length bit strings with a >= b (most significant first)
RECURSIVE BitsSub(_, _, _)
BitsSub(a, b, borrow) ==
    IF a = << >> THEN << >>
    ELSE LET n == Len(a)
             t == a[n] - b[n] - borrow
         IN  IF t < 0
             THEN BitsSub(SubSeq(a, 1, n - 1), SubSeq(b, 1, n - 1), 1) \o <<t + 2>>
             ELSE BitsSub(SubSeq(a, 1, n - 1), SubSeq(b, 1, n - 1), 0) \o <<t>>

RECURSIVE LeadingZeros(_)
LeadingZeros(bits) ==
    IF bits = << >> \/ Head(bits) = 1 THEN 0 ELSE 1 + LeadingZeros(Tail(bits))

\* round an exact positive binary value (leading bit 1, exponent e) to PREC bits
RoundBits(e, bits) ==
    IF Len(bits) <= PREC
    THEN [z |-> FALSE, e |-> e, m |-> bits \o Zeros(PREC - Len(bits))]
    ELSE LET kept   == SubSeq(bits, 1, PREC)
             guard  == bits[PREC + 1]
             sticky == \E i \in (PREC + 2)..Len(bits) : bits[i] = 1
             up     == guard = 1 /\ (sticky \/ kept[PREC] = 1)
         IN  IF up THEN RoundUp(e, kept) ELSE [z |-> FALSE, e |-> e, m |-> kept]

\* abs(x - y) on doubles, correctly rounded
DAbsDiff(x, y) ==
    IF x = y THEN DZero
    ELSE LET hi == IF DLess(x, y) THEN y ELSE x
             lo == IF DLess(x, y) THEN x ELSE y
         IN  IF lo.z THEN hi
             ELSE LET s  == hi.e - lo.e
                      d  == BitsSub(hi.m \o Zeros(s), Zeros(s) \o lo.m, 0)
                      lz == LeadingZeros(d)
                  IN  RoundBits(hi.e - lz, SubSeq(d, lz + 1, Len(d)))

----------------------------------------------------------------------------
(* Scalar cell values: [kind, txt, num]                                    *)
(*   "NaN", "None"  the null cells (float('nan'), None)                    *)
(*   "NA"           pd.NA, the null that align_columns_to_reference fills  *)
(*   "str"          text txt                                               *)
(*   "int"          the Python int num                                     *)
(*   "float"        the double nearest num/100                             *)
(*   "inf"          the float infinity                                     *)

V_NaN      == [kind |-> "NaN",   txt |-> << >>, num |-> 0]
V_NA       == [kind |-> "NA",    txt |-> << >>, num |-> 0]
V_None     == [kind |-> "None",  txt |-> << >>, num |-> 0]
V_inf      == [kind |-> "inf",   txt |-> << >>, num |-> 0]
V_str(t)   == [kind |-> "str",   txt |-> t,     num |-> 0]
V_int(n)   == [kind |-> "int",   txt |-> << >>, num |-> n]
V_float(h) == [kind |-> "float", txt |-> << >>, num |-> h]

\* pd.isna(val) or val is None
IsNa(v) == v.kind \in {"NaN", "None", "NA"}

\* isinstance(val, str)
IsStr(v) == v.kind = "str"

\* isinstance(val, (int, float))
IsNumber(v) == v.kind \in {"int", "float", "inf", "NaN"}

\* type(val).__name__
TypeName(v) ==
    CASE v.kind = "str"   -> "str"
      [] v.kind = "int"   -> "int"
      [] v.kind = "None"  -> "NoneType"
      [] v.kind = "NA"    -> "NAType"
      [] OTHER            -> "float"

\* repr of the double nearest h/100: the shortest decimal that reads back as it
FloatStr(h) ==
    LET whole == Digits(h \div 100)
        frac  == h % 100
    IN  IF frac % 10 = 0 THEN whole \o <<46>> \o Digits(frac \div 10)
        ELSE whole \o <<46>> \o Digits(frac \div 10) \o Digits(frac % 10)

\* str(val)
Str(v) ==
    CASE v.kind = "str"   -> v.txt
      [] v.kind = "int"   -> Digits(v.num)
      [] v.kind = "float" -> FloatStr(v.num)
      [] v.kind = "inf"   -> <<105, 110, 102>>
      [] v.kind = "NaN"   -> <<110, 97, 110>>
      [] v.kind = "None"  -> <<78, 111, 110, 101>>
      [] v.kind = "NA"    -> <<60, 78, 65, 62>>

\* the finite number as a double (an int of this size converts exactly)
ToDouble(v) == IF v.kind = "int" THEN DoubleOfRatio(v.num, 1)
               ELSE DoubleOfRatio(v.num, 100)

\* numeric_tolerance: None, or the double nearest h/100
NoTol  == [set |-> FALSE, h |-> 0]
Tol(h) == [set |-> TRUE, h |-> h]

\* abs(val1 - val2) <= numeric_tolerance.  inf - inf is nan and inf - x is
\* inf: neither is <= a finite tolerance.
AbsDiffWithin(val1, val2, numeric_tolerance) ==
    IF val1.kind = "inf" \/ val2.kind = "inf" THEN FALSE
    ELSE DLeq(DAbsDiff(ToDouble(val1), ToDouble(val2)),
              DoubleOfRatio(numeric_tolerance.h, 100))

----------------------------------------------------------------------------
(* comparison_engine.py *)

is_null(val) == IsNa(val) \/ (IsStr(val) /\ Strip(val.txt) = << >>)

\* values_match that does not treat blank text as null
values_match_NoBlankText(val1, val2, case_sensitive, numeric_tolerance) ==
    IF IsNa(val1) /\ IsNa(val2) THEN TRUE
    ELSE IF IsNa(val1) \/ IsNa(val2) THEN FALSE
    ELSE IF numeric_tolerance.set /\ IsNumber(val1) /\ IsNumber(val2)
         THEN AbsDiffWithin(val1, val2, numeric_tolerance)
    ELSE IF case_sensitive THEN Str(val1) = Str(val2)
    ELSE Lower(Str(val1)) = Lower(Str(val2))

\* values_match that ignores case_sensitive
values_match_NoFold(val1, val2, case_sensitive, numeric_tolerance) ==
    IF is_null(val1) /\ is_null(val2) THEN TRUE
    ELSE IF is_null(val1) \/ is_null(val2) THEN FALSE
    ELSE IF numeric_tolerance.set /\ IsNumber(val1) /\ IsNumber(val2)
         THEN AbsDiffWithin(val1, val2, numeric_tolerance)
    ELSE Str(val1) = Str(val2)

values_match(val1, val2, case_sensitive, numeric_tolerance) ==
    LET is_null_1 == is_null(val1)
        is_null_2 == is_null(val2)
        str1 == IF case_sensitive THEN Str(val1) ELSE Lower(Str(val1))
        str2 == IF case_sensitive THEN Str(val2) ELSE Lower(Str(val2))
    IN  IF is_null_1 /\ is_null_2 THEN TRUE
        ELSE IF is_null_1 \/ is_null_2 THEN FALSE
        ELSE IF numeric_tolerance.set /\ IsNumber(val1) /\ IsNumber(val2)
             THEN AbsDiffWithin(val1, val2, numeric_tolerance)
        ELSE str1 = str2

\* the Details text of a record, by its parts
Detail(msg, n1, n2, n3, s1, s2, d) ==
    [msg |-> msg, n1 |-> n1, n2 |-> n2, n3 |-> n3, s1 |-> s1, s2 |-> s2, d |-> d]

D_Fixed(msg)       == Detail(msg, 0, 0, 0, "", "", DZero)
D_OneEmpty         == D_Fixed("One cell is empty while the other has data")
D_Types(tA, tB)    == Detail("Folder A type, Folder B type", 0, 0, 0, tA, tB, DZero)
D_Numeric(diff, h) == Detail("Numeric difference (tolerance)", h, 0, 0, "", "", diff)
D_NumericNaN(h)    == Detail("Numeric difference nan (tolerance)", h, 0, 0, "", "", DZero)
D_NumericInf(h)    == Detail("Numeric difference inf (tolerance)", h, 0, 0, "", "", DZero)
D_Length(lA, lB)   == Detail("Length differs", lA, lB, 0, "", "", DZero)
D_DiffAt(i, cA, cB) == Detail("Difference at position", i, cA, cB, "", "", DZero)
D_Fallback         == D_Fixed("Values appear identical but comparison failed")
D_None             == D_Fixed("")

\* find_string_difference that counts positions from 0
find_string_difference_FromZero(str1, str2, case_sensitive) ==
    LET compare_str1 == IF case_sensitive THEN str1 ELSE Lower(str1)
        compare_str2 == IF case_sensitive THEN str2 ELSE Lower(str2)
        differing    == {i \in 1..Len(compare_str1) : compare_str1[i] # compare_str2[i]}
    IN  IF Len(compare_str1) # Len(compare_str2)
        THEN D_Length(Len(str1), Len(str2))
        ELSE IF differing # {}
        THEN LET i == CHOOSE j \in differing : \A k \in differing : j <= k
             IN  D_DiffAt(i - 1, str1[i], str2[i])
        ELSE D_Fallback

find_string_difference(str1, str2, case_sensitive) ==
    LET compare_str1 == IF case_sensitive THEN str1 ELSE Lower(str1)
        compare_str2 == IF case_sensitive THEN str2 ELSE Lower(str2)
        differing    == {i \in 1..Len(compare_str1) : compare_str1[i] # compare_str2[i]}
    IN  IF Len(compare_str1) # Len(compare_str2)
        THEN D_Length(Len(str1), Len(str2))
        ELSE IF differing # {}
        THEN LET i == CHOOSE j \in differing : \A k \in differing : j <= k
             IN  D_DiffAt(i, str1[i], str2[i])
        ELSE D_Fallback

Issue(type, details) == [type |-> type, details |-> details]

\* analyze_mismatch that folds case whatever case_sensitive is
analyze_mismatch_FoldAlways(val_A_, val_B_, numeric_tolerance, case_sensitive) ==
    IF IsNa(val_A_) \/ IsNa(val_B_)
    THEN Issue("Missing/Empty Value", D_OneEmpty)
    ELSE IF TypeName(val_A_) # TypeName(val_B_)
    THEN Issue("Data Type Mismatch", D_Types(TypeName(val_A_), TypeName(val_B_)))
    ELSE IF numeric_tolerance.set /\ IsNumber(val_A_) /\ IsNumber(val_B_)
    THEN Issue("Value Mismatch", D_NumericNaN(numeric_tolerance.h))
    ELSE Issue("Value Mismatch", find_string_difference(Str(val_A_), Str(val_B_), FALSE))

analyze_mismatch(val_A_, val_B_, numeric_tolerance, case_sensitive) ==
    IF IsNa(val_A_) \/ IsNa(val_B_)
    THEN Issue("Missing/Empty Value", D_OneEmpty)
    ELSE IF TypeName(val_A_) # TypeName(val_B_)
    THEN Issue("Data Type Mismatch", D_Types(TypeName(val_A_), TypeName(val_B_)))
    ELSE IF numeric_tolerance.set /\ IsNumber(val_A_) /\ IsNumber(val_B_)
    THEN Issue("Value Mismatch",
               IF val_A_.kind = "inf" /\ val_B_.kind = "inf"
               THEN D_NumericNaN(numeric_tolerance.h)
               ELSE IF val_A_.kind = "inf" \/ val_B_.kind = "inf"
               THEN D_NumericInf(numeric_tolerance.h)
               ELSE D_Numeric(DAbsDiff(ToDouble(val_A_), ToDouble(val_B_)),
                              numeric_tolerance.h))
    ELSE Issue("Value Mismatch",
               find_string_difference(Str(val_A_), Str(val_B_), case_sensitive))

T_EMPTY == <<91, 69, 77, 80, 84, 89, 93>>

\* display length limit of format_value
FormatLimit == 100

format_value(val) ==
    IF IsNa(val) THEN T_EMPTY
    ELSE LET str_val == Str(val)
         IN  IF Len(str_val) > FormatLimit
             THEN SubSeq(str_val, 1, FormatLimit)
                  \o <<46, 46, 46, 32, 40, 116, 111, 116, 97, 108, 32>>
                  \o Digits(Len(str_val)) \o <<32, 99, 104, 97, 114, 115, 41>>
             ELSE str_val

----------------------------------------------------------------------------
(* Tables (DataFrames): column names in order, and the rows by position *)

Table(columns, rows) == [columns |-> columns, rows |-> rows]

\* len(df), len(df.columns), df.shape
NRows(df) == Len(df.rows)
NCols(df) == Len(df.columns)
Shape(df) == <<NRows(df), NCols(df)>>

\* df.iloc[row_idx, col_idx], both counted from 0
Cell(df, r, c) == df.rows[r + 1][c + 1]

Max(a, b) == IF a >= b THEN a ELSE b
Min(a, b) == IF a <= b THEN a ELSE b

\* set(cols)
NameSet(cols) == {cols[i] : i \in 1..Len(cols)}

\* position of a column name in a schema of unique names
IndexOf(cols, name) == CHOOSE i \in 1..Len(cols) : cols[i] = name

\* [col for col in xs if col not in ys]
RECURSIVE NotIn(_, _)
NotIn(xs, ys) ==
    IF xs = << >> THEN << >>
    ELSE IF Head(xs) \in NameSet(ys) THEN NotIn(Tail(xs), ys)
    ELSE <<Head(xs)>> \o NotIn(Tail(xs), ys)

\* formula maps: None, or a dict from (row, col) to the formula text
NoFormulas     == [present |-> FALSE, map |-> << >>]
Formulas(map)  == [present |-> TRUE, map |-> map]

\* truth value of a formula map in `formulas_A and formulas_B`
Truthy(formulas) == formulas.present /\ DOMAIN formulas.map # {}

\* formulas.get((row_idx, col_idx)); "" stands for None
FormulaAt(formulas, r, c) ==
    IF <<r, c>> \in DOMAIN formulas.map THEN formulas.map[<<r, c>>] ELSE ""

----------------------------------------------------------------------------
(* column_processor.py *)

AlignmentInfo(was_aligned, original_order, reference_order, missing, extra, reordered) ==
    [was_aligned |-> was_aligned, original_order |-> original_order,
     reference_order |-> reference_order, missing_in_target |-> missing,
     extra_in_target |-> extra, reordered |-> reordered]

NoAlignment == AlignmentInfo(FALSE, << >>, << >>, << >>, << >>, FALSE)

\* df_to_align[reference_cols]: the columns picked by name, in the given order
SelectColumns(df, cols) ==
    Table(cols, [r \in 1..NRows(df) |->
                    [c \in 1..Len(cols) |-> df.rows[r][IndexOf(df.columns, cols[c])]]])

\* an aligned frame that leaves out the columns the candidate does not have
BuildAligned_OnlyPresent(reference_cols, df_to_align) ==
    LET kept == NotIn(reference_cols, NotIn(reference_cols, df_to_align.columns))
    IN  Table(kept,
              [r \in 1..NRows(df_to_align) |->
                  [c \in 1..Len(kept) |->
                      df_to_align.rows[r][IndexOf(df_to_align.columns, kept[c])]]])

\* the frame built column by column from an empty pd.DataFrame(): a column
\* assigned from df_to_align brings its rows; pd.NA is broadcast over the rows
\* there are (a pd.NA column made before any row exists is filled with NaN when
\* the first real column arrives; with no real column the frame has no rows)
BuildAligned(reference_cols, df_to_align) ==
    LET present == {c \in 1..Len(reference_cols) :
                        reference_cols[c] \in NameSet(df_to_align.columns)}
        first   == CHOOSE c \in present : \A k \in present : c <= k
        n       == IF present = {} THEN 0 ELSE NRows(df_to_align)
    IN  Table(reference_cols,
              [r \in 1..n |->
                  [c \in 1..Len(reference_cols) |->
                      IF c \in present
                      THEN df_to_align.rows[r][IndexOf(df_to_align.columns, reference_cols[c])]
                      ELSE IF c < first THEN V_NaN ELSE V_NA]])

\* align_columns_to_reference that keeps the candidate's own column order
align_columns_KeepOrder(df_reference, df_to_align) ==
    [df   |-> df_to_align,
     info |-> AlignmentInfo(df_reference.columns # df_to_align.columns,
                            df_to_align.columns, df_reference.columns, << >>, << >>,
                            df_reference.columns # df_to_align.columns)]

align_columns_to_reference(df_reference, df_to_align) ==
    LET reference_cols == df_reference.columns
        target_cols    == df_to_align.columns
        missing_cols   == NotIn(reference_cols, target_cols)
        extra_cols     == NotIn(target_cols, reference_cols)
    IN  IF reference_cols = target_cols
        THEN [df   |-> df_to_align,
              info |-> AlignmentInfo(FALSE, target_cols, reference_cols, << >>, << >>, FALSE)]
        ELSE IF NameSet(reference_cols) = NameSet(target_cols)
        THEN [df   |-> SelectColumns(df_to_align, reference_cols),
              info |-> AlignmentInfo(TRUE, target_cols, reference_cols, << >>, << >>, TRUE)]
        ELSE [df   |-> BuildAligned(reference_cols, df_to_align),
              info |-> AlignmentInfo(missing_cols # << >> \/ extra_cols # << >>,
                                     target_cols, reference_cols,
                                     missing_cols, extra_cols, FALSE)]

----------------------------------------------------------------------------
(* file_comparison.py *)

\* the 'Row' of a record: 'N/A', 'Header', or a row number
Row_NA       == [kind |-> "N/A", n |-> 0]
Row_Header   == [kind |-> "Header", n |-> 0]
Row_Number(n) == [kind |-> "number", n |-> n]

\* the 'Column' of a record: 'N/A', f'Column {n}', or a column name
Col_NA          == [kind |-> "N/A", n |-> 0, name |-> << >>]
Col_Position(n) == [kind |-> "Column", n |-> n, name |-> << >>]
Col_Name(name)  == [kind |-> "name", n |-> 0, name |-> name]

\* the 'Folder A Value' / 'Folder B Value' of a record, by its parts
Shown(kind, n1, n2, txt) == [kind |-> kind, n1 |-> n1, n2 |-> n2, txt |-> txt]

Shown_Shape(df)  == Shown("rows x cols", NRows(df), NCols(df), << >>)
Shown_Columns(n) == Shown("columns", n, 0, << >>)
Shown_Rows(n)    == Shown("rows", n, 0, << >>)
Shown_Text(txt)  == Shown("text", 0, 0, txt)
Shown_Formula(f) == Shown(IF f = "" THEN "[No formula]" ELSE f, 0, 0, << >>)

T_MISSING == <<91, 77, 73, 83, 83, 73, 78, 71, 93>>

T_filename == <<102>>

Record(filename_, row, column, issue_type, shown_A, shown_B, details) ==
    [File_Name |-> filename_, Row |-> row, Column |-> column, Issue_Type |-> issue_type,
     Folder_A_Value |-> shown_A, Folder_B_Value |-> shown_B, Details |-> details]

\* add_result that appends nothing
add_result_Never(records, filename_, row, column, issue_type, shown_A, shown_B, details, summary_only) == records

\* add_result that appends whatever summary_only is
add_result_Always(records, filename_, row, column, issue_type, shown_A, shown_B, details, summary_only) ==
    Append(records, Record(filename_, row, column, issue_type, shown_A, shown_B, details))

add_result(records, filename_, row, column, issue_type, shown_A, shown_B, details, summary_only) ==
    IF ~summary_only
    THEN Append(records, Record(filename_, row, column, issue_type, shown_A, shown_B, details))
    ELSE records

Summary(total, shape, column, value, type, formula, missing) ==
    [total_differences |-> total, shape_mismatch |-> shape, column_mismatch |-> column,
     value_mismatch |-> value, type_mismatch |-> type, formula_mismatch |-> formula,
     missing_value |-> missing]

ZeroSummary == Summary(0, 0, 0, 0, 0, 0, 0)

\* summary_dict[key] += 1
Bump(counters, key) == [counters EXCEPT ![key] = @ + 1]

\* df.columns[col_idx] if col_idx < len(df.columns) else '[MISSING]'
ColumnOrMissing(df, i) == IF i < NCols(df) THEN df.columns[i + 1] ELSE T_MISSING

\* the positions col_idx of the column-name loop whose names differ
NameMismatches(dfA, dfB) ==
    {i \in 0..(Max(NCols(dfA), NCols(dfB)) - 1) :
        ColumnOrMissing(dfA, i) # ColumnOrMissing(dfB, i)}

\* the records of the column-name loop from position i on
RECURSIVE ColumnNameRecords(_, _, _, _, _, _)
ColumnNameRecords(records, filename_, dfA, dfB, config, i) ==
    IF i >= Max(NCols(dfA), NCols(dfB)) THEN records
    ELSE LET col_A == ColumnOrMissing(dfA, i)
             col_B == ColumnOrMissing(dfB, i)
             next  == IF col_A # col_B
                      THEN add_result(records, filename_, Row_Header, Col_Position(i + 1),
                                      "Column Name Mismatch",
                                      Shown_Text(col_A), Shown_Text(col_B),
                                      find_string_difference(col_A, col_B,
                                                             config.case_sensitive),
                                      config.summary_only)
                      ELSE records
         IN  ColumnNameRecords(next, filename_, dfA, dfB, config, i + 1)

\* the row locator of a cell's record, one that counts from 1 instead
CellRow_DataRow(r) == Row_Number(r + 1)

\* the row locator of a cell's record: row_idx + 2
CellRow(r) == Row_Number(r + 2)

\* the bucket a cell mismatch is counted in, from its issue type
Bucket(issue_type) ==
    IF issue_type = "Data Type Mismatch" THEN "type_mismatch"
    ELSE IF issue_type = "Missing/Empty Value" THEN "missing_value"
    ELSE "value_mismatch"

\* 1. SHAPE CHECK
ShapeCheck ==
    /\ pc = "cmp_shape"
    /\ IF Shape(df_A) # Shape(df_B)
       THEN /\ results_list' = add_result(results_list, filename, Row_NA, Col_NA,
                                          "Shape Mismatch", Shown_Shape(df_A), Shown_Shape(df_B),
                                          D_Fixed("File dimensions do not match"),
                                          cfg.summary_only)
            /\ summary_dict' = Bump(summary_dict, "shape_mismatch")
            /\ differences_found' = differences_found + 1
       ELSE UNCHANGED <<results_list, summary_dict, differences_found>>
    /\ pc' = "cmp_colcount"
    /\ UNCHANGED <<cfg, vmVars, prepVars, folderVars, runVars, df_A, df_B, formulas_A, formulas_B,
                   df_B_unaligned, alignment_info,
                   row_idx, col_idx>>

\* 2. COLUMN COUNT CHECK
ColumnCountCheck ==
    /\ pc = "cmp_colcount"
    /\ IF NCols(df_A) # NCols(df_B)
       THEN /\ results_list' = add_result(results_list, filename, Row_Header, Col_NA,
                                          "Column Count Mismatch",
                                          Shown_Columns(NCols(df_A)), Shown_Columns(NCols(df_B)),
                                          D_Fixed("Number of columns differs"),
                                          cfg.summary_only)
            /\ summary_dict' = Bump(summary_dict, "column_mismatch")
            /\ differences_found' = differences_found + 1
       ELSE UNCHANGED <<results_list, summary_dict, differences_found>>
    /\ pc' = "cmp_colnames"
    /\ UNCHANGED <<cfg, vmVars, prepVars, folderVars, runVars, df_A, df_B, formulas_A, formulas_B,
                   df_B_unaligned, alignment_info,
                   row_idx, col_idx>>

\* 3. COLUMN NAMES CHECK (the whole loop)
ColumnNamesCheck ==
    /\ pc = "cmp_colnames"
    /\ LET k == Cardinality(NameMismatches(df_A, df_B))
       IN  /\ results_list' = ColumnNameRecords(results_list, filename, df_A, df_B, cfg, 0)
           /\ summary_dict' = [summary_dict EXCEPT !["column_mismatch"] = @ + k]
           /\ differences_found' = differences_found + k
    /\ pc' = "cmp_rowcount"
    /\ UNCHANGED <<cfg, vmVars, prepVars, folderVars, runVars, df_A, df_B, formulas_A, formulas_B,
                   df_B_unaligned, alignment_info,
                   row_idx, col_idx>>

\* 4. ROW COUNT CHECK, and the entry into the cell loops
RowCountCheck ==
    /\ pc = "cmp_rowcount"
    /\ IF NRows(df_A) # NRows(df_B)
       THEN /\ results_list' = add_result(results_list, filename, Row_NA, Col_NA,
                                          "Row Count Mismatch",
                                          Shown_Rows(NRows(df_A)), Shown_Rows(NRows(df_B)),
                                          D_Fixed("Number of data rows differs"),
                                          cfg.summary_only)
            /\ summary_dict' = Bump(summary_dict, "shape_mismatch")
            /\ differences_found' = differences_found + 1
       ELSE UNCHANGED <<results_list, summary_dict, differences_found>>
    /\ row_idx' = 0
    /\ col_idx' = 0
    /\ pc' = IF Min(NRows(df_A), NRows(df_B)) = 0 \/ Min(NCols(df_A), NCols(df_B)) = 0
             THEN "cmp_total" ELSE "cmp_cells"
    /\ UNCHANGED <<cfg, vmVars, prepVars, folderVars, runVars, df_A, df_B, formulas_A, formulas_B,
                   df_B_unaligned, alignment_info>>

\* the formula check of one cell finds a difference
FormulaDiffers(r, c) ==
    /\ cfg.compare_formulas
    /\ Truthy(formulas_A)
    /\ Truthy(formulas_B)
    /\ FormulaAt(formulas_A, r, c) # FormulaAt(formulas_B, r, c)

\* 5. CELL-BY-CELL COMPARISON: one iteration of the inner loop
CompareCell ==
    /\ pc = "cmp_cells"
    /\ LET min_rows == Min(NRows(df_A), NRows(df_B))
           min_cols == Min(NCols(df_A), NCols(df_B))
           col_name == df_A.columns[col_idx + 1]
           vA       == Cell(df_A, row_idx, col_idx)
           vB       == Cell(df_B, row_idx, col_idx)
           formula_A == FormulaAt(formulas_A, row_idx, col_idx)
           formula_B == FormulaAt(formulas_B, row_idx, col_idx)
           found    == analyze_mismatch(vA, vB, cfg.numeric_tolerance, cfg.case_sensitive)
           last_col == col_idx + 1 = min_cols
           last     == last_col /\ row_idx + 1 = min_rows
       IN  /\ IF FormulaDiffers(row_idx, col_idx)
              THEN /\ results_list' =
                         add_result(results_list, filename, CellRow(row_idx),
                                    Col_Name(col_name), "Formula Mismatch",
                                    Shown_Formula(formula_A), Shown_Formula(formula_B),
                                    D_Fixed("Excel formulas are different"),
                                    cfg.summary_only)
                   /\ summary_dict' = Bump(summary_dict, "formula_mismatch")
                   /\ differences_found' = differences_found + 1
              ELSE IF ~values_match(vA, vB, cfg.case_sensitive, cfg.numeric_tolerance)
              THEN /\ results_list' =
                         add_result(results_list, filename, CellRow(row_idx),
                                    Col_Name(col_name), found.type,
                                    Shown_Text(format_value(vA)), Shown_Text(format_value(vB)),
                                    found.details, cfg.summary_only)
                   /\ summary_dict' = Bump(summary_dict, Bucket(found.type))
                   /\ differences_found' = differences_found + 1
              ELSE UNCHANGED <<results_list, summary_dict, differences_found>>
           /\ col_idx' = IF last_col THEN 0 ELSE col_idx + 1
           /\ row_idx' = IF last_col THEN row_idx + 1 ELSE row_idx
           /\ pc' = IF last THEN "cmp_total" ELSE "cmp_cells"
    /\ UNCHANGED <<cfg, vmVars, prepVars, folderVars, runVars, df_A, df_B, formulas_A, formulas_B,
                   df_B_unaligned, alignment_info>>

\* summary_dict['total_differences'] = differences_found; return
UpdateTotal ==
    /\ pc = "cmp_total"
    /\ summary_dict' = [summary_dict EXCEPT !["total_differences"] = differences_found]
    /\ pc' = "cmp_done"
    /\ UNCHANGED <<cfg, vmVars, prepVars, folderVars, runVars, df_A, df_B, formulas_A, formulas_B,
                   df_B_unaligned, alignment_info,
                   row_idx, col_idx, results_list, differences_found>>

compare_single_file ==
    \/ ShapeCheck
    \/ ColumnCountCheck
    \/ ColumnNamesCheck
    \/ RowCountCheck
    \/ CompareCell
    \/ UpdateTotal

\* main_multisheet.py:247 - df_B, alignment_info = align_columns_to_reference(df_A, df_B)
AlignColumns ==
    /\ pc = "align"
    /\ LET aligned == align_columns_to_reference(df_A, df_B)
       IN  /\ df_B_unaligned' = df_B
           /\ df_B' = aligned.df
           /\ alignment_info' = aligned.info
    /\ pc' = "call"
    /\ UNCHANGED <<cfg, vmVars, prepVars, folderVars, runVars, df_A, formulas_A, formulas_B, row_idx, col_idx,
                   results_list, summary_dict, differences_found>>

\* no table is being compared
NoTables ==
    /\ df_A = Table(<< >>, << >>)
    /\ df_B = Table(<< >>, << >>)
    /\ formulas_A = NoFormulas
    /\ formulas_B = NoFormulas
    /\ df_read = Table(<< >>, << >>)
    /\ removed_cols_B = << >>
    /\ df_B_unaligned = Table(<< >>, << >>)
    /\ alignment_info = NoAlignment
    /\ row_idx = 0
    /\ col_idx = 0
    /\ results_list = << >>
    /\ summary_dict = ZeroSummary
    /\ differences_found = 0

----------------------------------------------------------------------------
(* sheet_handler.py, file_reader.py and the run of main_multisheet.py *)

\* sheet names "S1", "S2", ...
SheetName(k) == <<83, 48 + k>>

NoSheets == [n \in {} |-> 0]

Sheet(dataframe, formulas) == [dataframe |-> dataframe, formulas |-> formulas]

SheetComparison(filename_, sheets_match, only_in_A, only_in_B, common, total_A, total_B) ==
    [filename |-> filename_, sheets_match |-> sheets_match,
     sheets_only_in_A |-> only_in_A, sheets_only_in_B |-> only_in_B,
     common_sheets |-> common, total_sheets_A |-> total_A, total_sheets_B |-> total_B]

NoSheetComparison == SheetComparison(T_filename, FALSE, {}, {}, {}, 0, 0)

\* compare_sheet_structures that has no common sheet when the sheet sets differ
compare_sheet_structures_Blocking(sheets_A_, sheets_B_, filename_) ==
    LET keys_A == DOMAIN sheets_A_
        keys_B == DOMAIN sheets_B_
    IN  SheetComparison(filename_, keys_A = keys_B, keys_A \ keys_B, keys_B \ keys_A,
                        IF keys_A = keys_B THEN keys_A \cap keys_B ELSE {},
                        Cardinality(keys_A), Cardinality(keys_B))

\* the lists built from sets are kept as sets: their order is the set's
\* iteration order, which the run does not fix
compare_sheet_structures(sheets_A_, sheets_B_, filename_) ==
    LET keys_A == DOMAIN sheets_A_
        keys_B == DOMAIN sheets_B_
    IN  SheetComparison(filename_, keys_A = keys_B, keys_A \ keys_B, keys_B \ keys_A,
                        keys_A \cap keys_B,
                        Cardinality(keys_A), Cardinality(keys_B))

\* column names and text cells lose leading and trailing whitespace
strip_dataframe_whitespace(df) ==
    Table([c \in 1..NCols(df) |-> Strip(df.columns[c])],
          [r \in 1..NRows(df) |->
              [c \in 1..NCols(df) |->
                  IF IsStr(df.rows[r][c]) THEN V_str(Strip(df.rows[r][c].txt))
                  ELSE df.rows[r][c]]])

\* a column is blank when all its cells are null, or all print as blank text
IsBlankColumn(df, c) ==
    \/ \A r \in 1..NRows(df) : IsNa(df.rows[r][c])
    \/ \A r \in 1..NRows(df) : Strip(Str(df.rows[r][c])) = T_empty

\* the names of the columns at the positions picked, in schema order
NamesAt(df, picked) ==
    [k \in 1..Cardinality(picked) |->
        df.columns[CHOOSE c \in picked : Cardinality({b \in picked : b < c}) = k - 1]]

\* df.drop(columns=removed_columns)
DropColumns(df, removed_columns) == SelectColumns(df, NotIn(df.columns, removed_columns))

\* remove_blank_columns that removes no more than the first blank column
remove_blank_columns_FirstOnly(df) ==
    LET blank == {c \in 1..NCols(df) : IsBlankColumn(df, c)}
        first == {c \in blank : \A b \in blank : c <= b}
    IN  [df |-> DropColumns(df, NamesAt(df, first)), removed |-> NamesAt(df, first)]

remove_blank_columns(df) ==
    LET removed_columns == NamesAt(df, {c \in 1..NCols(df) : IsBlankColumn(df, c)})
    IN  IF removed_columns # << >>
        THEN [df |-> DropColumns(df, removed_columns), removed |-> removed_columns]
        ELSE [df |-> df, removed |-> << >>]

\* column_processor.py:9-32 - remove_blank_columns applied to df_B, and applied
\* again to the table it returned
RemoveBlankColumns ==
    /\ pc \in {"rb_call", "rb_once"}
    /\ LET cleaned == remove_blank_columns(df_B)
       IN  /\ df_B' = cleaned.df
           /\ removed_cols_B' = cleaned.removed
    /\ df_read' = IF pc = "rb_call" THEN df_B ELSE df_read
    /\ pc' = IF pc = "rb_call" THEN "rb_once" ELSE "rb_twice"
    /\ UNCHANGED <<cfg, vmVars, folderVars, runVars, df_A, formulas_A, formulas_B,
                   df_B_unaligned, alignment_info, row_idx, col_idx, results_list,
                   summary_dict, differences_found>>

STRIP_WHITESPACE     == TRUE
DELETE_BLANK_COLUMNS == TRUE
AUTO_ALIGN_COLUMNS   == TRUE

\* main_multisheet.py:203-226 - the sheet structure check and the fresh file_summary
CheckSheetStructure ==
    /\ pc = "run_structure"
    /\ sheet_comparison' = compare_sheet_structures(sheets_A, sheets_B_raw, filename)
    /\ remaining' = sheet_comparison'.common_sheets
    /\ file_summary' = ZeroSummary
    /\ sheet_summaries' = NoSheets
    /\ pc' = "run_sheet"
    /\ UNCHANGED <<cfg, vmVars, prepVars, folderVars, cmpVars, sheets_A, sheets_B_raw, sheet_name,
                   compared, results, summary>>

\* main_multisheet.py:229-245 - the loop takes a common sheet, strips the
\* candidate's whitespace and removes its blank columns
BeginSheet ==
    /\ pc = "run_sheet"
    /\ \E name \in remaining :
        /\ sheet_name' = name
        /\ remaining' = remaining \ {name}
        /\ df_A' = sheets_A[name].dataframe
        /\ formulas_A' = sheets_A[name].formulas
        /\ formulas_B' = sheets_B_raw[name].formulas
        /\ LET read     == sheets_B_raw[name].dataframe
               stripped == IF STRIP_WHITESPACE THEN strip_dataframe_whitespace(read) ELSE read
               cleaned  == remove_blank_columns(stripped)
           IN  /\ df_read' = stripped
               /\ df_B' = IF DELETE_BLANK_COLUMNS THEN cleaned.df ELSE stripped
               /\ removed_cols_B' = IF DELETE_BLANK_COLUMNS THEN cleaned.removed ELSE << >>
    /\ pc' = IF AUTO_ALIGN_COLUMNS THEN "align" ELSE "call"
    /\ UNCHANGED <<cfg, vmVars, folderVars, df_B_unaligned, alignment_info, row_idx, col_idx,
                   results_list, summary_dict, differences_found,
                   sheets_A, sheets_B_raw, sheet_comparison, compared, results,
                   file_summary, summary>>
    /\ UNCHANGED sheet_summaries

\* main_multisheet.py:261-281 - the fresh sheet_summary and sheet_results, and
\* the call of compare_single_file
CallCompare ==
    /\ pc = "call"
    /\ summary_dict' = ZeroSummary
    /\ results_list' = << >>
    /\ differences_found' = 0
    /\ row_idx' = 0
    /\ col_idx' = 0
    /\ compared' = Append(compared, sheet_name)
    /\ pc' = "cmp_shape"
    /\ UNCHANGED <<cfg, vmVars, prepVars, folderVars, df_A, df_B, formulas_A, formulas_B, df_B_unaligned,
                   alignment_info, sheets_A, sheets_B_raw, sheet_comparison,
                   remaining, sheet_name, results, file_summary, summary>>
    /\ UNCHANGED sheet_summaries

\* the sheet's counters replace the file's
Aggregate_Overwrite(file_summary_, sheet_summary) == sheet_summary

\* main_multisheet.py:290-291 - for key in file_summary: file_summary[key] += sheet_summary[key]
Aggregate(file_summary_, sheet_summary) ==
    [key \in DOMAIN file_summary_ |-> file_summary_[key] + sheet_summary[key]]

\* main_multisheet.py:283-290 - the records get their sheet name, the counters
\* are added to file_summary
EndSheet ==
    /\ pc = "cmp_done"
    /\ results' = results \o [i \in 1..Len(results_list) |->
                                 results_list[i] @@ [Sheet_Name |-> sheet_name]]
    /\ file_summary' = Aggregate(file_summary, summary_dict)
    /\ sheet_summaries' = (sheet_name :> summary_dict) @@ sheet_summaries
    /\ pc' = "run_sheet"
    /\ UNCHANGED <<cfg, vmVars, prepVars, folderVars, cmpVars, sheets_A, sheets_B_raw, sheet_comparison,
                   remaining, sheet_name, compared, summary>>

\* main_multisheet.py:292 - summary[filename] = file_summary
EndFile ==
    /\ pc = "run_sheet"
    /\ remaining = {}
    /\ summary' = (filename :> file_summary) @@ summary
    /\ pc' = "run_done"
    /\ UNCHANGED <<cfg, vmVars, prepVars, folderVars, cmpVars, sheets_A, sheets_B_raw, sheet_comparison,
                   remaining, sheet_name, compared, results, file_summary>>
    /\ UNCHANGED sheet_summaries

\* report_generator.py:54 - the 'Status' of a file in the summary sheet
Status(counts) == IF counts.total_differences = 0 THEN "MATCH" ELSE "DIFFER"

\* file names "f1", "f2", ...
FileName(k) == <<102, 48 + k>>

T_NA == <<78, 47, 65>>

\* a summary that counts no difference for a file that was not compared
OneDifference_None == Summary(0, 0, 0, 0, 0, 0, 0)

\* the summary written for a file that was not compared
OneDifference == Summary(1, 0, 0, 0, 0, 0, 0)

\* the record of a file that was not compared
FileRecord(filename_, issue_type, shown_A, shown_B, details) ==
    Record(filename_, Row_NA, Col_NA, issue_type, Shown(shown_A, 0, 0, << >>),
           Shown(shown_B, 0, 0, << >>), D_Fixed(details))

\* sheet_handler.py:30-46 - read_all_sheets: the sheets of the file, or {}
\* when pd.read_excel raises: the file cannot be opened, or one of its sheets
\* (file.bad) cannot be read
read_all_sheets(file) == IF file.readable /\ file.bad = {} THEN file.sheets ELSE NoSheets

\* sheet_handler.py:49-69 - read_specific_sheets: a sheet whose read raises
\* (the sheet is not in the file, or cannot be read) is left out
read_specific_sheets(file, sheet_names) ==
    [n \in {m \in sheet_names : file.readable /\ m \in DOMAIN file.sheets /\ m \notin file.bad} |->
        file.sheets[n]]

\* sheet_handler.py:72-117 - read_excel_sheets_with_formulas with
\* sheet_names = None: the sheets are taken in workbook order ("S1", "S2", ...)
\* until a read raises; what was read before is returned. The files hold no
\* formula, so every sheet's formulas dict is empty.
read_excel_sheets_with_formulas(file) ==
    [n \in {m \in DOMAIN file.sheets : file.readable /\ \A b \in file.bad : m[2] < b[2]} |->
        Sheet(file.sheets[n], Formulas(<< >>))]

\* main_multisheet.py:170-184 - the read of the candidate file's sheets;
\* SPECIFIC_SHEETS is None, so the sheets to read are the reference's
ReadSheets(file, config, sheets_A_) ==
    IF config.compare_formulas THEN read_excel_sheets_with_formulas(file)
    ELSE IF config.compare_all_sheets
         THEN [n \in DOMAIN read_all_sheets(file) |-> Sheet(read_all_sheets(file)[n], NoFormulas)]
         ELSE [n \in DOMAIN read_specific_sheets(file, DOMAIN sheets_A_) |->
                  Sheet(read_specific_sheets(file, DOMAIN sheets_A_)[n], NoFormulas)]

\* main_multisheet.py:170-186 - whether the read of the candidate raises into
\* run_comparison: the three readers catch every Exception themselves
ReadRaises(file) == FALSE

\* main_multisheet.py:134 - for filename in sorted(folder_b_files)
TakeFile ==
    /\ pc \in {"run_start", "run_done"}
    /\ pending # {}
    /\ filename' = CHOOSE f \in pending : \A g \in pending : f[2] <= g[2]
    /\ pending' = pending \ {filename'}
    /\ pc' = "run_file"
    /\ UNCHANGED <<cfg, vmVars, prepVars, cmpVars, runVars, folder_a_data, folder_b_path,
                   reads, summary_full>>

\* main_multisheet.py:138-163 - the candidate file has no reference file
MissingReference ==
    /\ pc = "run_file"
    /\ filename \notin DOMAIN folder_a_data
    /\ summary' = (filename :> OneDifference) @@ summary
    /\ results' =
          IF ~cfg.summary_only
          THEN Append(results,
                      FileRecord(filename, "Missing Folder A File",
                                 "File not found in Folder A", "File exists in Folder B",
                                 "This Folder B file has no corresponding Folder A file")
                      @@ [Sheet_Name |-> T_NA])
          ELSE results
    /\ pc' = "run_done"
    /\ UNCHANGED <<cfg, vmVars, prepVars, cmpVars, folderVars, sheets_A, sheets_B_raw,
                   sheet_comparison, remaining, sheet_name, compared, file_summary>>
    /\ UNCHANGED sheet_summaries

\* main_multisheet.py:166-200 - the reference's sheets, and the read of the
\* candidate's sheets
ReadCandidate ==
    /\ pc = "run_file"
    /\ filename \in DOMAIN folder_a_data
    /\ sheets_A' = folder_a_data[filename]
    /\ reads' = Append(reads, filename)
    /\ IF ReadRaises(folder_b_path[filename])
       THEN /\ summary' = (filename :> OneDifference) @@ summary
            /\ results' =
                  IF ~cfg.summary_only
                  THEN Append(results,
                              FileRecord(filename, "Folder B File Read Error", "N/A",
                                         "Cannot read file", "Error")
                              @@ [Sheet_Name |-> T_NA])
                  ELSE results
            /\ pc' = "run_done"
            /\ UNCHANGED sheets_B_raw
       ELSE /\ sheets_B_raw' = ReadSheets(folder_b_path[filename], cfg, sheets_A')
            /\ pc' = "run_structure"
            /\ UNCHANGED <<results, summary>>
    /\ UNCHANGED <<cfg, vmVars, prepVars, cmpVars, folder_a_data, folder_b_path, pending,
                   filename, summary_full, sheet_comparison, remaining, sheet_name,
                   compared, file_summary>>
    /\ UNCHANGED sheet_summaries

\* a report step that first gives every reference file an entry in the summary
Report_ReferenceFilesToo ==
    /\ pc \in {"run_start", "run_done"}
    /\ pending = {}
    /\ summary' = [f \in DOMAIN summary \cup DOMAIN folder_a_data |->
                      IF f \in DOMAIN summary THEN summary[f] ELSE ZeroSummary]
    /\ pc' = "run_end"
    /\ UNCHANGED <<cfg, vmVars, prepVars, cmpVars, folderVars, sheets_A, sheets_B_raw,
                   sheet_comparison, remaining, sheet_name, compared, results,
                   file_summary, sheet_summaries>>

\* main_multisheet.py:295 - generate_excel_report(results, summary, ...)
Report ==
    /\ pc \in {"run_start", "run_done"}
    /\ pending = {}
    /\ pc' = "run_end"
    /\ UNCHANGED <<cfg, vmVars, prepVars, cmpVars, runVars, folderVars>>

\* main.py:144-153 - for filename in sorted(folder_b_files), and the fresh
\* summary[filename]
MainTakeFile ==
    /\ pc \in {"main_start", "main_done"}
    /\ pending # {}
    /\ filename' = CHOOSE f \in pending : \A g \in pending : f[2] <= g[2]
    /\ pending' = pending \ {filename'}
    /\ summary' = (filename' :> ZeroSummary) @@ summary
    /\ pc' = "main_file"
    /\ UNCHANGED <<cfg, vmVars, prepVars, cmpVars, folder_a_data, folder_b_path,
                   reads, summary_full, sheets_A, sheets_B_raw, sheet_comparison,
                   remaining, sheet_name, compared, results, file_summary>>
    /\ UNCHANGED sheet_summaries

\* main.py:155-169 - the candidate file has no reference file
MainMissingReference ==
    /\ pc = "main_file"
    /\ filename \notin DOMAIN folder_a_data
    /\ results' =
          IF ~cfg.summary_only
          THEN Append(results,
                      FileRecord(filename, "Missing Folder A File",
                                 "File not found in Folder A", "File exists in Folder B",
                                 "This Folder B file has no corresponding Folder A file"))
          ELSE results
    /\ summary' = [summary EXCEPT ![filename] = Bump(@, "total_differences")]
    /\ pc' = "main_done"
    /\ UNCHANGED <<cfg, vmVars, prepVars, cmpVars, folderVars, sheets_A, sheets_B_raw,
                   sheet_comparison, remaining, sheet_name, compared, file_summary>>
    /\ UNCHANGED sheet_summaries

\* main.py:171-173 - folder_a_file_data['dataframe']: read_folder_files keeps
\* the keys 'sheets', 'sheet_names' and 'total_sheets' for a file, so the
\* lookup raises KeyError, outside any try: the run ends without a report
MainKeyError ==
    /\ pc = "main_file"
    /\ filename \in DOMAIN folder_a_data
    /\ pc' = "main_crashed"
    /\ UNCHANGED <<cfg, vmVars, prepVars, cmpVars, runVars, folderVars>>

\* main.py:241 - generate_excel_report(results, summary, ...)
MainReport ==
    /\ pc \in {"main_start", "main_done"}
    /\ pending = {}
    /\ pc' = "main_end"
    /\ UNCHANGED <<cfg, vmVars, prepVars, cmpVars, runVars, folderVars>>

\* the run is made again on the same folders, with SUMMARY_ONLY = True
Rerun ==
    /\ pc \in {"run_end", "main_end"}
    /\ ~cfg.summary_only
    /\ summary_full' = summary
    /\ cfg' = [cfg EXCEPT !.summary_only = TRUE]
    /\ pending' = DOMAIN folder_b_path
    /\ reads' = << >>
    /\ compared' = << >>
    /\ results' = << >>
    /\ results_list' = << >>
    /\ summary' = NoSheets
    /\ pc' = IF pc = "run_end" THEN "run_start" ELSE "main_start"
    /\ UNCHANGED <<vmVars, prepVars, df_A, df_B, formulas_A, formulas_B, df_B_unaligned,
                   alignment_info, row_idx, col_idx, summary_dict, differences_found,
                   folder_a_data, folder_b_path, filename, sheets_A, sheets_B_raw,
                   sheet_comparison, remaining, sheet_name, file_summary>>
    /\ UNCHANGED sheet_summaries

\* no folder is being compared
NoFolders ==
    /\ folder_a_data = NoSheets
    /\ folder_b_path = NoSheets
    /\ pending = {}
    /\ filename = T_filename
    /\ reads = << >>
    /\ summary_full = NoSheets

\* no file is being compared
NoRun ==
    /\ sheets_A = NoSheets
    /\ sheets_B_raw = NoSheets
    /\ sheet_comparison = NoSheetComparison
    /\ remaining = {}
    /\ sheet_name = << >>
    /\ compared = << >>
    /\ results = << >>
    /\ file_summary = ZeroSummary
    /\ summary = NoSheets
    /\ sheet_summaries = NoSheets
    /\ NoFolders

----------------------------------------------------------------------------
(* Input domains *)

Floats == {V_float(h) : h \in 100..(100 + MaxStep)}

Values ==
    {V_NaN, V_None, V_inf, V_int(1), V_int(2)}
    \cup Floats
    \cup {V_str(t) : t \in {T_empty, T_space, T_Hello, T_hello, T_x, T_xsp, T_one, T_inf}}

Tolerances == {NoTol} \cup {Tol(h) : h \in 0..MaxStep}

Config(cs, tol, cf, so) ==
    [case_sensitive |-> cs, numeric_tolerance |-> tol,
     compare_formulas |-> cf, summary_only |-> so, compare_all_sheets |-> TRUE]

NoIssue == Issue("", D_None)

\* column names "A", "B", ... of the reference table, and the name "X" of a
\* column the reference does not have
ColName(c) == <<64 + c>>
ExtraName  == <<88>>

RefColumns(C) == [c \in 1..C |-> ColName(c)]

\* every cell of a table holds a different integer, but for one cell (the last
\* cell of the reference's last data row), which holds any value of CellValues
BaseValue(r, c) == V_int(10 * r + c)
ExtraValue(r)   == V_int(10 * r + 9)

CellValues ==
    {V_NaN, V_inf, V_float(100), V_float(101),
     V_str(T_space), V_str(T_Alice), V_str(T_alice)}

RefTable(R, C, v) ==
    Table(RefColumns(C),
          [r \in 1..R |-> [c \in 1..C |-> IF r = R /\ c = C THEN v ELSE BaseValue(r, c)]])

\* the column of the reference that the candidate's column called name holds
\* the data of: the name is the reference's, or its lower-case form
ColOf(name) == IF name[1] > 96 THEN name[1] - 96 ELSE name[1] - 64

\* the candidate: its columns hold, under their names, the data of the
\* reference's columns, with v in the place of the one free cell
CandTable(R, C, Rb, schema, v) ==
    Table(schema,
          [r \in 1..Rb |->
              [k \in 1..Len(schema) |->
                  IF schema[k] = ExtraName THEN ExtraValue(r)
                  ELSE IF r = R /\ ColOf(schema[k]) = C THEN v
                  ELSE BaseValue(r, ColOf(schema[k]))]])

\* sequences of length 1..n of different elements of S
InjectiveSeqs(S, n) ==
    {q \in UNION {[1..k -> S] : k \in 1..n} : \A i, j \in 1..Len(q) : i # j => q[i] # q[j]}

\* schemas of a candidate compared without alignment: the reference's, with
\* one more column, with another name or the lower-case name for the last
\* column, or (below) without the last column
PlainSchemas(C) ==
    {RefColumns(C), RefColumns(C) \o <<ExtraName>>,
     [c \in 1..C |-> IF c = C THEN ExtraName ELSE ColName(c)],
     [c \in 1..C |-> IF c = C THEN Lower(ColName(c)) ELSE ColName(c)]}
    \cup (IF C > 1 THEN {RefColumns(C - 1)} ELSE {})

\* schemas of a candidate that is aligned before it is compared
AnySchemas(C) == InjectiveSeqs(NameSet(RefColumns(C)) \cup {ExtraName}, C + 1)

CandRows(R) == {n \in 0..MaxRows : n >= R - 1 /\ n <= R + 1}

\* formula maps of the two sides: no formula comparison, or a formula in the
\* free cell of each side, or of the reference only (the candidate sheet has
\* no formula: its map is the empty dict), or the reference's formula in the
\* candidate's column of the same name, where the sheet of the candidate has it
FormulaCases(R, C, schema) ==
    {<<FALSE, NoFormulas, NoFormulas>>}
    \cup {<<TRUE, Formulas(<<R - 1, C - 1>> :> "=F1"), Formulas(<<R - 1, C - 1>> :> f)>> :
            f \in {"=F1", "=F2"}}
    \cup {<<TRUE, Formulas(<<R - 1, C - 1>> :> "=F1"), Formulas(<< >>)>>}
    \cup {<<TRUE, Formulas(<<R - 1, C - 1>> :> "=F1"),
                  Formulas(<<R - 1, IndexOf(schema, ColName(C)) - 1>> :> "=F1")>> :
            x \in {c \in {C} : ColName(c) \in NameSet(schema)}}

TableTolerances == {NoTol, Tol(1)}

InitTables(schemas(_), free_B) ==
    \E R \in 1..MaxRows, C \in 1..MaxCols :
    \E vA \in CellValues \cup {BaseValue(R, C)} :
    \E vB \in IF free_B THEN CellValues \cup {BaseValue(R, C)} ELSE {vA} :
    \E Rb \in CandRows(R), schema \in schemas(C) :
    \E fc \in FormulaCases(R, C, schema) :
    \E cs \in BOOLEAN, tol \in TableTolerances, so \in BOOLEAN :
        /\ cfg = Config(cs, tol, fc[1], so)
        /\ df_A = RefTable(R, C, vA)
        /\ df_B = CandTable(R, C, Rb, schema, vB)
        /\ formulas_A = fc[2]
        /\ formulas_B = fc[3]
        /\ df_read = Table(<< >>, << >>)
        /\ removed_cols_B = << >>
        /\ df_B_unaligned = Table(<< >>, << >>)
        /\ alignment_info = NoAlignment
        /\ row_idx = 0
        /\ col_idx = 0
        /\ results_list = << >>
        /\ summary_dict = ZeroSummary
        /\ differences_found = 0
        /\ val_A = V_None
        /\ val_B = V_None
        /\ match = FALSE
        /\ issue = NoIssue
        /\ NoRun

----------------------------------------------------------------------------
(* compare_single_file on a reference table and a candidate table *)

InitCmp == pc = "cmp_shape" /\ InitTables(PlainSchemas, TRUE)

NextCmp == compare_single_file

SpecCmp == InitCmp /\ [][NextCmp]_vars

----------------------------------------------------------------------------
(* align_columns_to_reference, then compare_single_file *)

InitAlign == pc = "align" /\ InitTables(AnySchemas, FALSE)

NextAlign == AlignColumns \/ CallCompare \/ compare_single_file

SpecAlign == InitAlign /\ [][NextAlign]_vars

----------------------------------------------------------------------------
(* remove_blank_columns on a table, and again on the table it returns *)

BlankCellValues == {V_NaN, V_str(T_empty), V_str(T_space), V_int(1)}

BlankTables(R, C) == {Table(RefColumns(C), rows) : rows \in [1..R -> [1..C -> BlankCellValues]]}

InitBlank ==
    /\ pc = "rb_call"
    /\ \E R \in 0..MaxRows, C \in 1..MaxCols : df_B \in BlankTables(R, C)
    /\ cfg = Config(TRUE, NoTol, FALSE, FALSE)
    /\ df_A = Table(<< >>, << >>)
    /\ formulas_A = NoFormulas
    /\ formulas_B = NoFormulas
    /\ df_read = Table(<< >>, << >>)
    /\ removed_cols_B = << >>
    /\ df_B_unaligned = Table(<< >>, << >>)
    /\ alignment_info = NoAlignment
    /\ row_idx = 0
    /\ col_idx = 0
    /\ results_list = << >>
    /\ summary_dict = ZeroSummary
    /\ differences_found = 0
    /\ val_A = V_None
    /\ val_B = V_None
    /\ match = FALSE
    /\ issue = NoIssue
    /\ NoRun

NextBlank == RemoveBlankColumns

SpecBlank == InitBlank /\ [][NextBlank]_vars

----------------------------------------------------------------------------
(* The multi-sheet run on one candidate file that has a reference file *)

\* the sheets of a file are among "S1" .. "S<MaxSheets>"
SheetNames == {SheetName(k) : k \in 1..MaxSheets}

\* sheet k of the reference holds one cell; the candidate's sheet k holds the
\* same cell, or another value in it, alone or after a column of its own; the
\* candidate's sheet "S1" may have a second row

InitRun ==
    /\ pc = "run_structure"
    /\ \E names_A \in SUBSET SheetNames, names_B \in SUBSET SheetNames :
       \E differ \in SUBSET SheetNames, extra \in BOOLEAN, tall \in BOOLEAN :
          /\ sheets_A = [n \in names_A |-> Sheet(RefTable(1, 1, V_int(n[2] - 48)), NoFormulas)]
          /\ sheets_B_raw =
                 [n \in names_B |->
                     Sheet(CandTable(1, 1, IF tall /\ n = SheetName(1) THEN 2 ELSE 1,
                                     IF extra THEN <<ExtraName, ColName(1)>>
                                     ELSE <<ColName(1)>>,
                                     V_int(IF n \in differ THEN n[2] - 48 + MaxSheets
                                           ELSE n[2] - 48)),
                           NoFormulas)]
    /\ cfg \in {Config(cs, NoTol, FALSE, so) : cs \in {TRUE}, so \in BOOLEAN}
    /\ sheet_comparison = NoSheetComparison
    /\ remaining = {}
    /\ sheet_name = << >>
    /\ compared = << >>
    /\ results = << >>
    /\ file_summary = ZeroSummary
    /\ summary = NoSheets
    /\ sheet_summaries = NoSheets
    /\ NoFolders
    /\ val_A = V_None
    /\ val_B = V_None
    /\ match = FALSE
    /\ issue = NoIssue
    /\ NoTables

NextRun ==
    \/ CheckSheetStructure
    \/ BeginSheet
    \/ AlignColumns
    \/ CallCompare
    \/ compare_single_file
    \/ EndSheet
    \/ EndFile

SpecRun == InitRun /\ [][NextRun]_vars

----------------------------------------------------------------------------
(* The runs of main_multisheet.py and of main.py on two folders *)

\* the number of file names of the two folders
MaxFiles == 2

FileNames == {FileName(k) : k \in 1..MaxFiles}

\* a file's sheets "S1" (and "S2"), one cell each; d is added to the cell of "S1"
FileSheets(n, d) ==
    [name \in {SheetName(k) : k \in 1..n} |->
        RefTable(1, 1, V_int(IF name = SheetName(1) THEN 1 + d ELSE name[2] - 48))]

\* the reference files as read_folder_files returns them
RefFiles(cf) == {[name \in DOMAIN FileSheets(n, 0) |-> Sheet(FileSheets(n, 0)[name], IF cf THEN Formulas(<< >>) ELSE NoFormulas)] : n \in 1..2}

\* the candidate files: readable, with sheets as the reference's or with
\* another value in "S1", or with a second row in "S1", or with one of two
\* sheets that cannot be read; or not readable at all
CandFiles ==
    {[readable |-> TRUE, sheets |-> FileSheets(n, d), bad |-> {}] : n \in 1..2, d \in {0, 5}}
    \cup {[readable |-> TRUE, sheets |-> (SheetName(1) :> CandTable(1, 1, 2, RefColumns(1), V_int(1))), bad |-> {}]}
    \cup {[readable |-> TRUE, sheets |-> FileSheets(2, 0), bad |-> {SheetName(k)}] : k \in 1..2}
    \cup {[readable |-> FALSE, sheets |-> NoSheets, bad |-> {}]}

\* the settings COMPARE_FORMULAS and COMPARE_ALL_SHEETS of a run
ReadModes == {<<FALSE, TRUE>>, <<FALSE, FALSE>>, <<TRUE, TRUE>>}

InitFolders ==
    /\ pc \in {"run_start", "main_start"}
    /\ \E mode \in ReadModes :
          /\ cfg = [Config(TRUE, NoTol, mode[1], FALSE) EXCEPT !.compare_all_sheets = mode[2]]
          /\ \E names_A \in SUBSET FileNames : folder_a_data \in [names_A -> RefFiles(mode[1])]
    /\ \E names_B \in (SUBSET FileNames) \ {{}} :
          /\ folder_b_path \in [names_B -> CandFiles]
          /\ pending = names_B
    /\ filename = T_filename
    /\ reads = << >>
    /\ summary_full = NoSheets
    /\ sheets_A = NoSheets
    /\ sheets_B_raw = NoSheets
    /\ sheet_comparison = NoSheetComparison
    /\ remaining = {}
    /\ sheet_name = << >>
    /\ compared = << >>
    /\ results = << >>
    /\ file_summary = ZeroSummary
    /\ summary = NoSheets
    /\ sheet_summaries = NoSheets
    /\ val_A = V_None
    /\ val_B = V_None
    /\ match = FALSE
    /\ issue = NoIssue
    /\ NoTables

NextFolders ==
    \/ TakeFile
    \/ MissingReference
    \/ ReadCandidate
    \/ NextRun
    \/ Report
    \/ MainTakeFile
    \/ MainMissingReference
    \/ MainKeyError
    \/ MainReport
    \/ Rerun

SpecFolders == InitFolders /\ [][NextFolders]_vars

----------------------------------------------------------------------------
(* The value matcher and the classifier on one pair of values *)

InitVM ==
    /\ pc = "vm_call"
    /\ val_A \in Values
    /\ val_B \in Values
    /\ cfg \in {Config(cs, tol, FALSE, FALSE) : cs \in BOOLEAN, tol \in Tolerances}
    /\ match = FALSE
    /\ issue = NoIssue
    /\ NoTables
    /\ NoRun

\* file_comparison.py:94 - the call of values_match
CallValuesMatch ==
    /\ pc = "vm_call"
    /\ match' = values_match(val_A, val_B, cfg.case_sensitive, cfg.numeric_tolerance)
    /\ pc' = IF match' THEN "vm_done" ELSE "vm_mismatch"
    /\ UNCHANGED <<cfg, val_A, val_B, issue, cmpVars, runVars, prepVars, folderVars>>

\* file_comparison.py:97 - analyze_mismatch, called only after a failed match
CallAnalyzeMismatch ==
    /\ pc = "vm_mismatch"
    /\ issue' = analyze_mismatch(val_A, val_B, cfg.numeric_tolerance, cfg.case_sensitive)
    /\ pc' = "vm_done"
    /\ UNCHANGED <<cfg, val_A, val_B, match, cmpVars, runVars, prepVars, folderVars>>

NextVM == CallValuesMatch \/ CallAnalyzeMismatch

SpecVM == InitVM /\ [][NextVM]_vars

----------------------------------------------------------------------------
(* Properties of the value matcher *)

\* null/NaN/None, or a text with nothing but whitespace in it
NullLike(v) ==
    \/ v.kind \in {"NaN", "None", "NA"}
    \/ v.kind = "str" /\ \A i \in 1..Len(v.txt) : IsSpace(v.txt[i])

Matched == pc \in {"vm_done", "vm_mismatch"}

\* C7: for every configuration values_match returns true when both values are
\* null-like and false when exactly one of them is, in either argument order.
C7_NullEquivalence ==
    Matched =>
        /\ (NullLike(val_A) /\ NullLike(val_B)) => match
        /\ (NullLike(val_A) # NullLike(val_B)) => ~match

C7_Witness ==
    /\ Matched
    /\ val_A = V_str(T_space)
    /\ val_B = V_NaN
    /\ cfg.numeric_tolerance.set
    /\ match

\* the number a finite numeric value stands for, in hundredths
Hundredths(v) == IF v.kind = "int" THEN 100 * v.num ELSE v.num

AbsInt(i) == IF i < 0 THEN -i ELSE i

\* C8: with numeric_tolerance t set and both values numeric, values_match
\* returns true iff |a - b| <= t, the boundary |a - b| = t included (so with
\* t = 0.01 the pair (1.00, 1.01) matches and the pair (1.00, 1.02) does not).
C8_ToleranceBoundary ==
    (/\ Matched
     /\ cfg.numeric_tolerance.set
     /\ val_A.kind \in {"int", "float"}
     /\ val_B.kind \in {"int", "float"})
    => (match <=> AbsInt(Hundredths(val_A) - Hundredths(val_B)) <= cfg.numeric_tolerance.h)

\* two non-null numbers are the same number
NumbersEqual(a, b) ==
    IF a.kind = "inf" \/ b.kind = "inf" THEN a.kind = b.kind
    ELSE Hundredths(a) = Hundredths(b)

\* C9: without numeric_tolerance, values_match on two non-null numeric values
\* returns true iff the two numbers are equal, whatever their representation
\* (the integer 1 and the float 1.0).
C9_ExactNumeric ==
    (/\ Matched
     /\ ~cfg.numeric_tolerance.set
     /\ val_A.kind \in {"int", "float", "inf"}
     /\ val_B.kind \in {"int", "float", "inf"})
    => (match <=> NumbersEqual(val_A, val_B))

\* the two texts have the same letters and differ in the case of some of them
DifferOnlyInCase(s, t) ==
    /\ Len(s) = Len(t)
    /\ s # t
    /\ \A i \in 1..Len(s) : LowerChar(s[i]) = LowerChar(t[i])

\* the two texts are equal character for character, case folded unless cs
TextEqual(s, t, cs) ==
    /\ Len(s) = Len(t)
    /\ \A i \in 1..Len(s) : IF cs THEN s[i] = t[i] ELSE LowerChar(s[i]) = LowerChar(t[i])

\* C10: for two non-null-like values whose text forms differ only in letter
\* case values_match is true iff case_sensitive is false; for two non-null-like
\* values outside the tolerance rule it is true iff the text forms, folded
\* when case_sensitive is false, are equal character for character.
C10_CaseFolding ==
    (Matched /\ ~NullLike(val_A) /\ ~NullLike(val_B)) =>
        /\ DifferOnlyInCase(Str(val_A), Str(val_B)) => (match <=> ~cfg.case_sensitive)
        /\ ~(cfg.numeric_tolerance.set /\ IsNumber(val_A) /\ IsNumber(val_B))
             => (match <=> TextEqual(Str(val_A), Str(val_B), cfg.case_sensitive))

C10_Witness ==
    /\ Matched
    /\ val_A = V_str(T_Hello)
    /\ val_B = V_str(T_hello)
    /\ ~cfg.case_sensitive
    /\ match

----------------------------------------------------------------------------
(* Properties of compare_single_file *)

Records == {results_list[i] : i \in 1..Len(results_list)}

\* the records of the cell in data row r (from 0) of the column called name
CellRecords(r, name) ==
    {rec \in Records : rec.Row = CellRow(r) /\ rec.Column = Col_Name(name)}

\* C1: compare_single_file(T, copy of T), with the same formula map on both
\* sides, appends no record, leaves the six buckets and total_differences at 0
\* and returns 0, for every table T and every configuration.
C1_Identity ==
    (pc = "cmp_done" /\ df_B = df_A /\ formulas_B = formulas_A) =>
        /\ results_list = << >>
        /\ summary_dict = ZeroSummary
        /\ differences_found = 0

\* the candidate holds the reference's columns, with their data, in another order
IsPermutationOf(dfB, dfA) ==
    /\ dfB.columns # dfA.columns
    /\ Len(dfB.columns) = Len(dfA.columns)
    /\ NameSet(dfB.columns) = NameSet(dfA.columns)
    /\ NRows(dfB) = NRows(dfA)
    /\ \A r \in 1..NRows(dfA), c \in 1..NCols(dfA) :
           dfB.rows[r][IndexOf(dfB.columns, dfA.columns[c])] = dfA.rows[r][c]

\* C2: when the candidate holds the same columns and row data as the reference
\* in a different column order, alignment followed by compare_single_file
\* (formula comparison disabled) yields no record and total_differences = 0,
\* with was_aligned and reordered set.
C2_PermutationInvariance ==
    (/\ pc = "cmp_done"
     /\ ~cfg.compare_formulas
     /\ IsPermutationOf(df_B_unaligned, df_A))
    => /\ results_list = << >>
       /\ summary_dict.total_differences = 0
       /\ alignment_info.was_aligned
       /\ alignment_info.reordered

\* the positions, in the reference's schema, of the columns the candidate lacks
MissingColumns ==
    {c \in 1..NCols(df_A) : df_A.columns[c] \notin NameSet(df_B_unaligned.columns)}

\* the candidate was aligned and its name set is not the reference's
AlignedWithMissing ==
    /\ pc \in {"call", "cmp_shape", "cmp_colcount", "cmp_colnames", "cmp_rowcount",
               "cmp_cells", "cmp_total", "cmp_done"}
    /\ df_B_unaligned.columns # << >>
    /\ MissingColumns # {}

\* the rows compare_single_file compares cell by cell (from 0)
ComparedRows == 0..(Min(NRows(df_A), NRows(df_B)) - 1)

NullFilledAtReferencePosition ==
    /\ df_B.columns = df_A.columns
    /\ \A c \in MissingColumns, r \in 1..NRows(df_B) : IsNa(df_B.rows[r][c])

NoColumnCountRecord ==
    \A rec \in Records : rec.Issue_Type # "Column Count Mismatch"

\* the original statement of C3, read with records kept and no formula
\* comparison: a 'Missing/Empty Value' record for every cell of a missing
\* column in every compared row
C3_MissingColumn_Original ==
    AlignedWithMissing =>
        /\ NullFilledAtReferencePosition
        /\ pc = "cmp_done" =>
              /\ NoColumnCountRecord
              /\ (~cfg.summary_only /\ ~cfg.compare_formulas) =>
                     \A c \in MissingColumns, r \in ComparedRows :
                         \E rec \in CellRecords(r, df_A.columns[c]) :
                             rec.Issue_Type = "Missing/Empty Value"

\* C3: when the candidate lacks a reference column, the aligned table has the
\* reference's schema with that column null-filled at its reference position;
\* compare_single_file then emits no 'Column Count Mismatch' record and, when
\* records are kept (summary_only off), a 'Missing/Empty Value' record for
\* exactly those cells of that column, in the compared rows, whose reference
\* value is not null-like and for which no formula mismatch is reported.
C3_MissingColumn ==
    AlignedWithMissing =>
        /\ NullFilledAtReferencePosition
        /\ pc = "cmp_done" =>
              /\ NoColumnCountRecord
              /\ ~cfg.summary_only =>
                     \A c \in MissingColumns, r \in ComparedRows :
                         (/\ ~NullLike(df_A.rows[r + 1][c])
                          /\ ~FormulaDiffers(r, c - 1))
                         <=> (\E rec \in CellRecords(r, df_A.columns[c]) :
                                 rec.Issue_Type = "Missing/Empty Value")

\* a candidate lacking the reference's last column was compared, and a
\* 'Missing/Empty Value' record was written for a cell of that column
C3_Witness ==
    /\ pc = "cmp_done"
    /\ AlignedWithMissing
    /\ ~cfg.summary_only
    /\ NRows(df_B) >= 1
    /\ \E c \in MissingColumns :
           \E rec \in CellRecords(0, df_A.columns[c]) :
               rec.Issue_Type = "Missing/Empty Value"

\* the scenario of C5: same schema, one data row, the last cell 'Alice' in the
\* reference and 'alice' in the candidate, every other cell the same, no
\* formula comparison
AliceScenario ==
    /\ pc = "cmp_done"
    /\ df_B.columns = df_A.columns
    /\ NRows(df_A) = 1
    /\ NRows(df_B) = 1
    /\ df_A.rows[1][NCols(df_A)] = V_str(T_Alice)
    /\ df_B.rows[1][NCols(df_A)] = V_str(T_alice)
    /\ \A c \in 1..(NCols(df_A) - 1) : df_B.rows[1][c] = df_A.rows[1][c]
    /\ ~cfg.compare_formulas
    /\ df_B_unaligned.columns = << >>

\* C5: in that scenario compare_single_file with case_sensitive on emits (when
\* records are kept) exactly one record, a 'Value Mismatch' whose column is the
\* column's name and whose detail reports position 1 with 'A' and 'a'; with
\* case_sensitive off it emits no record and counts no difference.
C5_CaseScenario ==
    AliceScenario =>
        IF cfg.case_sensitive
        THEN /\ summary_dict = Summary(1, 0, 0, 1, 0, 0, 0)
             /\ ~cfg.summary_only =>
                    /\ Len(results_list) = 1
                    /\ results_list[1].Issue_Type = "Value Mismatch"
                    /\ results_list[1].Column = Col_Name(df_A.columns[NCols(df_A)])
                    /\ results_list[1].Details = D_DiffAt(1, 65, 97)
        ELSE /\ results_list = << >>
             /\ summary_dict = ZeroSummary

C5_Witness ==
    /\ AliceScenario
    /\ cfg.case_sensitive
    /\ Len(results_list) = 1
    /\ NCols(df_A) = 2

\* the original statement of C6: the record of a cell carries the 1-based
\* number of the cell's data row
C6_RowLocator_Original ==
    [][(pc = "cmp_cells" /\ results_list' # results_list) =>
          results_list'[Len(results_list')].Row = Row_Number(row_idx + 1)]_vars

\* C6: every record compare_single_file emits for a cell carries as its row
\* locator the cell's 0-based data row index plus 2, the row's number in the
\* worksheet whose row 1 is the header: the first data row has row locator 2.
C6_RowLocator ==
    [][(pc = "cmp_cells" /\ results_list' # results_list) =>
          /\ Len(results_list') = Len(results_list) + 1
          /\ results_list'[Len(results_list')].Row = Row_Number(row_idx + 2)]_vars

\* records were written for a cell of the first and of the second data row
C6_Witness ==
    /\ pc = "cmp_done"
    /\ \E rec \in Records : rec.Row = Row_Number(2) /\ rec.Column.kind = "name"
    /\ \E rec \in Records : rec.Row = Row_Number(3) /\ rec.Column.kind = "name"

----------------------------------------------------------------------------
(* Properties of the multi-sheet run *)

Compared == {compared[i] : i \in 1..Len(compared)}

\* C4: compare_sheet_structures returns A \ B, B \ A, A \cap B and A = B for
\* the sheet-name sets A and B, and the run calls compare_single_file exactly
\* once for each common sheet and for no other sheet, whatever the symmetric
\* difference.
C4_SheetPartition ==
    LET A == DOMAIN sheets_A
        B == DOMAIN sheets_B_raw
    IN  /\ pc # "run_structure" =>
              /\ \A s \in SheetNames :
                     /\ s \in sheet_comparison.sheets_only_in_A <=> (s \in A /\ s \notin B)
                     /\ s \in sheet_comparison.sheets_only_in_B <=> (s \in B /\ s \notin A)
                     /\ s \in sheet_comparison.common_sheets <=> (s \in A /\ s \in B)
              /\ sheet_comparison.sheets_only_in_A \subseteq SheetNames
              /\ sheet_comparison.sheets_only_in_B \subseteq SheetNames
              /\ sheet_comparison.common_sheets \subseteq SheetNames
              /\ sheet_comparison.sheets_match <=> (A = B)
        /\ \A i, j \in 1..Len(compared) : compared[i] = compared[j] => i = j
        /\ Compared \subseteq A \cap B
        /\ pc = "run_done" => Compared = A \cap B

\* a run is over in which each file had a sheet of its own, and the sheets
\* they share were compared
C4_Witness ==
    /\ pc = "run_done"
    /\ sheet_comparison.sheets_only_in_A # {}
    /\ sheet_comparison.sheets_only_in_B # {}
    /\ ~sheet_comparison.sheets_match
    /\ compared # << >>

----------------------------------------------------------------------------
(* Properties of remove_blank_columns *)

\* the positions of the columns of df whose every value is null or blank text
NullLikeColumns(df) ==
    {c \in 1..NCols(df) : \A r \in 1..NRows(df) : NullLike(df.rows[r][c])}

\* C11: remove_blank_columns removes a column iff each of its values is null
\* or a text that is empty after trimming; it returns the removed names in
\* schema order and keeps the other columns in their order.
C11_BlankColumnDefinition ==
    pc = "rb_once" =>
        /\ removed_cols_B = NamesAt(df_read, NullLikeColumns(df_read))
        /\ df_B = SelectColumns(df_read,
                                NamesAt(df_read, (1..NCols(df_read)) \ NullLikeColumns(df_read)))

\* C12: remove_blank_columns applied to the table remove_blank_columns returned
\* returns that table and an empty list of removed names.
C12_BlankColumnIdempotence ==
    [][pc = "rb_once" => (df_B' = df_B /\ removed_cols_B' = << >>)]_vars

\* the second application is over, of a table the first took a column from
\* and left a column in
C12_Witness ==
    /\ pc = "rb_twice"
    /\ NCols(df_B) >= 1
    /\ NCols(df_B) < NCols(df_read)

----------------------------------------------------------------------------
(* Properties of align_columns_to_reference *)

\* align_columns_to_reference has returned for the candidate df_B_unaligned
Aligned ==
    /\ pc \in {"call", "cmp_shape", "cmp_colcount", "cmp_colnames", "cmp_rowcount",
               "cmp_cells", "cmp_total", "cmp_done"}
    /\ df_B_unaligned.columns # << >>

\* the names of one schema that the other does not have, in the order of the first
NamesOnlyIn(cols, others) ==
    NamesAt(Table(cols, << >>), {c \in 1..Len(cols) : cols[c] \notin NameSet(others)})

\* C13: align_columns_to_reference returns (1) the candidate unchanged with
\* was_aligned false when the schemas are the same, (2) the candidate's columns
\* in reference order with was_aligned and reordered true when the name sets
\* are equal, (3) otherwise a table with the reference schema, the reference
\* columns the candidate lacks in missing_in_target, the candidate's other
\* columns in extra_in_target, and was_aligned true; in each case the
\* returned table has the reference schema.
C13_AlignmentSchema ==
    Aligned =>
        LET ref  == df_A.columns
            cand == df_B_unaligned.columns
        IN  /\ df_B.columns = ref
            /\ ref = cand =>
                   /\ df_B = df_B_unaligned
                   /\ ~alignment_info.was_aligned
            /\ (ref # cand /\ NameSet(ref) = NameSet(cand)) =>
                   /\ alignment_info.was_aligned
                   /\ alignment_info.reordered
                   /\ NRows(df_B) = NRows(df_B_unaligned)
                   /\ \A r \in 1..NRows(df_B), c \in 1..Len(ref) :
                          df_B.rows[r][c] = df_B_unaligned.rows[r][IndexOf(cand, ref[c])]
            /\ NameSet(ref) # NameSet(cand) =>
                   /\ alignment_info.was_aligned
                   /\ alignment_info.missing_in_target = NamesOnlyIn(ref, cand)
                   /\ alignment_info.extra_in_target = NamesOnlyIn(cand, ref)

\* a candidate was aligned that lacks a reference column and has a column of
\* its own
C13_Witness ==
    /\ Aligned
    /\ alignment_info.missing_in_target # << >>
    /\ alignment_info.extra_in_target # << >>
    /\ NRows(df_B) >= 1

----------------------------------------------------------------------------
(* Properties of analyze_mismatch *)

\* values_match returned false and analyze_mismatch has classified the pair
Classified == pc = "vm_done" /\ ~match

\* C14: whenever values_match returns false because exactly one of the two
\* values is null-like (null, None, or text that is empty after trimming),
\* analyze_mismatch returns 'Missing/Empty Value' with the fixed description
\* (the kind compare_single_file counts in the missing_value bucket).
C14_ClassifierNullLike ==
    (Classified /\ NullLike(val_A) # NullLike(val_B)) =>
        /\ issue = Issue("Missing/Empty Value", D_OneEmpty)
        /\ Bucket(issue.type) = "missing_value"

\* a number that is not null: an int, a finite float or an infinity
NumericValue(v) == v.kind \in {"int", "float", "inf"}

\* the detail reports a numeric difference and the tolerance h
NumericDetail(d, h) ==
    /\ d.msg \in {"Numeric difference (tolerance)", "Numeric difference nan (tolerance)",
                 "Numeric difference inf (tolerance)"}
    /\ d.n1 = h

\* C15: with a tolerance configured, two numeric values that do not match are
\* classified 'Value Mismatch' with a detail reporting the numeric difference
\* and the tolerance; 'Data Type Mismatch' is returned only for values of
\* different categories (numeric versus text).
C15_ClassifierNumeric ==
    Classified =>
        /\ (cfg.numeric_tolerance.set /\ NumericValue(val_A) /\ NumericValue(val_B)) =>
               /\ issue.type = "Value Mismatch"
               /\ NumericDetail(issue.details, cfg.numeric_tolerance.h)
        /\ issue.type = "Data Type Mismatch" => NumericValue(val_A) # NumericValue(val_B)

----------------------------------------------------------------------------
(* Properties of the formula comparison *)

\* the six buckets but formula_mismatch are left as they are
OtherBucketsUnchanged ==
    \A key \in {"shape_mismatch", "column_mismatch", "value_mismatch",
                "type_mismatch", "missing_value"} : summary_dict'[key] = summary_dict[key]

\* C16: with compare_formulas on, a compared cell whose formula text differs
\* between the two formula maps (a formula on one side only included, also
\* when the other side's map holds no formula at all) gets exactly one
\* 'Formula Mismatch' record and no value comparison; a cell whose formula
\* texts are equal gets the value comparison.
C16_FormulaComparison ==
    [][(pc = "cmp_cells" /\ cfg.compare_formulas) =>
          IF FormulaAt(formulas_A, row_idx, col_idx) # FormulaAt(formulas_B, row_idx, col_idx)
          THEN /\ summary_dict'.formula_mismatch = summary_dict.formula_mismatch + 1
               /\ OtherBucketsUnchanged
               /\ ~cfg.summary_only =>
                      /\ Len(results_list') = Len(results_list) + 1
                      /\ results_list'[Len(results_list')].Issue_Type = "Formula Mismatch"
          ELSE /\ summary_dict'.formula_mismatch = summary_dict.formula_mismatch
               /\ differences_found' # differences_found
                      <=> ~values_match(Cell(df_A, row_idx, col_idx), Cell(df_B, row_idx, col_idx),
                                        cfg.case_sensitive, cfg.numeric_tolerance)]_vars

----------------------------------------------------------------------------
(* Properties of the runs *)

BucketSum(counters) ==
    counters.shape_mismatch + counters.column_mismatch + counters.value_mismatch
    + counters.type_mismatch + counters.formula_mismatch + counters.missing_value

RunOver == pc \in {"run_end", "main_end"}

\* C17: in every per-file summary of a run, the summaries written for a
\* missing reference file and for a candidate read error included,
\* total_differences is the sum of the six buckets.
C17_CounterSum ==
    /\ \A f \in DOMAIN summary : summary[f].total_differences = BucketSum(summary[f])
    /\ pc = "cmp_done" => summary_dict.total_differences = BucketSum(summary_dict)

\* a formula mismatch on a cell increments formula_mismatch and no other bucket
FormulaMismatchCountsOnce ==
    [][(pc = "cmp_cells" /\ FormulaDiffers(row_idx, col_idx)) =>
          /\ summary_dict'.formula_mismatch = summary_dict.formula_mismatch + 1
          /\ OtherBucketsUnchanged
          /\ differences_found' = differences_found + 1]_vars

\* C18: the run with summary_only on produces the summary counters of the run
\* with summary_only off on the same folders, and keeps no record at all.
C18_SummaryOnly ==
    cfg.summary_only =>
        /\ results = << >>
        /\ results_list = << >>
        /\ RunOver => summary = summary_full

\* both runs are over, on folders with a candidate that has no reference file
\* and a candidate whose sheets were compared and differ
C18_Witness ==
    /\ pc = "run_end"
    /\ cfg.summary_only
    /\ \E f \in DOMAIN summary : summary[f] = OneDifference
    /\ \E f \in DOMAIN summary : BucketSum(summary[f]) >= 1
    /\ summary = summary_full

\* the records of kind issue_type written for the file f
FileRecords(f, issue_type) ==
    {i \in 1..Len(results) : results[i].File_Name = f /\ results[i].Issue_Type = issue_type}

\* C19: for a candidate file that has no reference file the run writes one
\* 'Missing Folder A File' record (when records are kept), sets the file's
\* total_differences to 1, makes no read, alignment or comparison, and goes on
\* with the next candidate file: at the end every such file has its summary
\* and its one record.
C19_MissingReference ==
    [][/\ (pc \in {"run_file", "main_file"} /\ filename \notin DOMAIN folder_a_data) =>
             /\ summary'[filename].total_differences = 1
             /\ IF cfg.summary_only THEN results' = results
                ELSE /\ Len(results') = Len(results) + 1
                     /\ SubSeq(results', 1, Len(results)) = results
                     /\ results'[Len(results')].Issue_Type = "Missing Folder A File"
                     /\ results'[Len(results')].File_Name = filename
             /\ reads' = reads
             /\ compared' = compared
             /\ UNCHANGED <<cmpVars, prepVars, pending>>
             /\ pc' \in {"run_done", "main_done"}
       /\ pc' \in {"run_end", "main_end"} =>
             \A f \in (DOMAIN folder_b_path') \ (DOMAIN folder_a_data') :
                 /\ f \in DOMAIN summary'
                 /\ summary'[f].total_differences = 1
                 /\ ~cfg'.summary_only =>
                        Cardinality({i \in 1..Len(results') :
                                        /\ results'[i].File_Name = f
                                        /\ results'[i].Issue_Type = "Missing Folder A File"}) = 1]_vars

\* a run is over in which the first candidate file had no reference file and
\* the second one was read and compared
C19_Witness ==
    /\ pc = "run_end"
    /\ ~cfg.summary_only
    /\ FileName(1) \notin DOMAIN folder_a_data
    /\ FileRecords(FileName(1), "Missing Folder A File") # {}
    /\ reads = <<FileName(2)>>
    /\ compared # << >>

\* C20: for every candidate file that has a reference file and whose read
\* fails, the run writes one 'Folder B File Read Error' record (when records
\* are kept) and the file's summary has total_differences = 1.
C20_CandidateReadError ==
    RunOver =>
        \A f \in (DOMAIN folder_b_path) \cap (DOMAIN folder_a_data) :
            ~folder_b_path[f].readable =>
                /\ f \in DOMAIN summary
                /\ summary[f].total_differences = 1
                /\ ~cfg.summary_only =>
                       Cardinality(FileRecords(f, "Folder B File Read Error")) = 1

\* the issue types of the records compare_single_file writes
ComparisonIssueTypes ==
    {"Shape Mismatch", "Column Count Mismatch", "Column Name Mismatch", "Row Count Mismatch",
     "Formula Mismatch", "Value Mismatch", "Data Type Mismatch", "Missing/Empty Value"}

\* the records written for the file f in place of a comparison
SyntheticRecords(f) ==
    {i \in 1..Len(results) :
        /\ results[i].File_Name = f
        /\ results[i].Issue_Type \notin ComparisonIssueTypes \cup {"Missing Folder A File"}}

\* the records compare_single_file wrote for the file f
ComparisonRecords(f) ==
    {i \in 1..Len(results) :
        results[i].File_Name = f /\ results[i].Issue_Type \in ComparisonIssueTypes}

\* C21: a candidate file one of whose sheets cannot be read (or whose formula
\* extraction fails on that sheet) gets exactly one record for the failure and
\* one more difference in its summary than the comparison of its sheets
\* counts, and the run goes on to its end.
C21_CollaboratorFailures ==
    RunOver =>
        \A f \in (DOMAIN folder_b_path) \cap (DOMAIN folder_a_data) :
            (folder_b_path[f].readable /\ folder_b_path[f].bad # {}) =>
                /\ f \in DOMAIN summary
                /\ summary[f].total_differences >= 1
                /\ ~cfg.summary_only =>
                      /\ Cardinality(SyntheticRecords(f)) = 1
                      /\ summary[f].total_differences = Cardinality(ComparisonRecords(f)) + 1

\* the file names in the sequence names
Names(names) == {names[i] : i \in 1..Len(names)}

\* C22: a run never aborts: it does not end before the report, at the report
\* the summary has exactly one entry for every candidate file name, and in the
\* single-table run every candidate file that has a reference file was read
\* and handed to compare_single_file.
C22_RunCompletion ==
    /\ pc # "main_crashed"
    /\ RunOver => DOMAIN summary = DOMAIN folder_b_path
    /\ pc = "main_end" => (DOMAIN folder_b_path) \cap (DOMAIN folder_a_data) \subseteq Names(reads)

RECURSIVE SumOver(_, _, _)
\* the sum of the counter key over the sheets in names
SumOver(names, counters_of, key) ==
    IF names = {} THEN 0
    ELSE LET n == CHOOSE m \in names : TRUE
         IN  counters_of[n][key] + SumOver(names \ {n}, counters_of, key)

\* C23: compare_single_file gets a fresh all-zero counter set for each sheet,
\* and each of the seven counters of the file's summary is the sum, over the
\* common sheets, of the counter compare_single_file left for the sheet.
C23_Aggregation ==
    /\ pc = "cmp_shape" => (summary_dict = ZeroSummary /\ results_list = << >>)
    /\ pc \in {"run_sheet", "run_done"} =>
          /\ DOMAIN sheet_summaries \subseteq sheet_comparison.common_sheets
          /\ \A key \in DOMAIN ZeroSummary :
                file_summary[key] = SumOver(DOMAIN sheet_summaries, sheet_summaries, key)
    /\ pc = "run_done" =>
          /\ DOMAIN sheet_summaries = sheet_comparison.common_sheets
          /\ \A key \in DOMAIN ZeroSummary :
                summary[filename][key] =
                    SumOver(sheet_comparison.common_sheets, sheet_summaries, key)

\* a file is done whose sheets "S1" and "S2" both differ from the reference's,
\* "S1" in its shape too
C23_Witness ==
    /\ pc = "run_done"
    /\ {SheetName(1), SheetName(2)} \subseteq DOMAIN sheet_summaries
    /\ sheet_summaries[SheetName(1)].shape_mismatch >= 1
    /\ sheet_summaries[SheetName(1)].value_mismatch = 1
    /\ sheet_summaries[SheetName(2)].value_mismatch = 1
    /\ summary[filename].value_mismatch = 2
    /\ summary[filename].total_differences >= 4

\* the 'Column Name Mismatch' records written for position i (from 0)
ColumnNameRecordsAt(i) ==
    {rec \in Records : rec.Issue_Type = "Column Name Mismatch" /\ rec.Column = Col_Position(i + 1)}

\* the first position (from 1) where two texts of one length differ
FirstDifference(s, t) == CHOOSE i \in 1..Len(s) : s[i] # t[i] /\ \A j \in 1..(i - 1) : s[j] = t[j]

\* C24: once the column names are checked there is, for every position i below
\* max(colsA, colsB), a 'Column Name Mismatch' record iff the names at i
\* ('[MISSING]' past a side's last column) differ under the configured case
\* rule; its detail names the two lengths or the first differing position,
\* never 'Values appear identical but comparison failed'.
C24_ColumnNames ==
    (pc \in {"cmp_rowcount", "cmp_cells", "cmp_total", "cmp_done"} /\ ~cfg.summary_only) =>
        \A i \in 0..(Max(NCols(df_A), NCols(df_B)) - 1) :
            LET col_A == ColumnOrMissing(df_A, i)
                col_B == ColumnOrMissing(df_B, i)
            IN  /\ (ColumnNameRecordsAt(i) # {}) <=> ~TextEqual(col_A, col_B, cfg.case_sensitive)
                /\ \A rec \in ColumnNameRecordsAt(i) :
                      /\ rec.Details # D_Fallback
                      /\ rec.Details =
                            IF Len(col_A) # Len(col_B) THEN D_Length(Len(col_A), Len(col_B))
                            ELSE LET k == FirstDifference(col_A, col_B)
                                 IN  D_DiffAt(k, col_A[k], col_B[k])

\* C25: the table align_columns_to_reference returns has as many rows as the
\* candidate table it was given, also when no reference column name occurs in
\* the candidate; so for equal row counts of reference and candidate no
\* 'Row Count Mismatch' and no 'Shape Mismatch' record is written.
C25_AlignmentRows ==
    pc # "align" =>
        /\ NRows(df_B) = NRows(df_B_unaligned)
        /\ (pc = "cmp_done" /\ NRows(df_A) = NRows(df_B_unaligned)) =>
              /\ summary_dict.shape_mismatch = 0
              /\ \A rec \in Records :
                    rec.Issue_Type \notin {"Row Count Mismatch", "Shape Mismatch"}

\* the records that carry the file name f
RecordsOf(f) == {i \in 1..Len(results) : results[i].File_Name = f}

\* C26: when records are kept, after a run the number of records that carry a
\* candidate file's name is the file's total_differences in the summary, for
\* every candidate file: compared, without reference file, or not readable.
\* The same holds for the records and the total of each compare_single_file call.
C26_RecordsAgreeWithCounters ==
    ~cfg.summary_only =>
        /\ RunOver =>
              \A f \in DOMAIN folder_b_path :
                  /\ f \in DOMAIN summary
                  /\ Cardinality(RecordsOf(f)) = summary[f].total_differences
        /\ pc = "cmp_done" => Len(results_list) = summary_dict.total_differences

\* a run that kept its records is over; one file was compared and has several
\* differences, the other has no reference file
C26_Witness ==
    /\ pc = "run_end"
    /\ ~cfg.summary_only
    /\ \E f \in DOMAIN summary : f \in Names(reads) /\ summary[f].total_differences >= 2
    /\ \E f \in DOMAIN summary : f \notin DOMAIN folder_a_data /\ Cardinality(RecordsOf(f)) = 1

\* C27: a candidate file whose sheet-name set differs from the reference
\* file's never has total_differences = 0 in its summary: it is not reported
\* as a match, even when all common sheets are identical.
C27_SheetSetDifference ==
    (pc = "run_done" /\ DOMAIN sheets_A # DOMAIN sheets_B_raw) =>
        /\ summary[filename].total_differences # 0
        /\ Status(summary[filename]) = "DIFFER"

\* C28: a file of the reference folder that the candidate folder does not
\* have gets no record and no summary entry: the records and the summary's
\* keys name candidate files only, and after a run the summary's keys are the
\* candidate file names.
C28_ReferenceOnlySilent ==
    /\ DOMAIN summary \subseteq DOMAIN folder_b_path
    /\ \A i \in 1..Len(results) : results[i].File_Name \in DOMAIN folder_b_path
    /\ RunOver => DOMAIN summary = DOMAIN folder_b_path

\* a run that wrote records is over, on folders where the reference folder
\* has a file the candidate folder does not have
C28_Witness ==
    /\ RunOver
    /\ (DOMAIN folder_a_data) \ (DOMAIN folder_b_path) # {}
    /\ results # << >>

CellBuckets == {"type_mismatch", "missing_value", "value_mismatch", "formula_mismatch"}

\* the counters one step of the cell loop changes
Bumped == {key \in DOMAIN summary_dict : summary_dict'[key] # summary_dict[key]}

\* C29: whenever values_match returns false, analyze_mismatch called with the
\* same case_sensitive and numeric_tolerance does not return the detail
\* 'Values appear identical but comparison failed'; a compared cell gets at
\* most one record, never with that detail, and a cell found different adds 1
\* to exactly one of type_mismatch, missing_value, value_mismatch and
\* formula_mismatch (a cell found equal changes no counter).
C29_FallbackUnreachable ==
    /\ [](Classified => issue.details # D_Fallback)
    /\ [][pc = "cmp_cells" =>
            /\ Len(results_list') \in {Len(results_list), Len(results_list) + 1}
            /\ SubSeq(results_list', 1, Len(results_list)) = results_list
            /\ Len(results_list') > Len(results_list) =>
                   results_list'[Len(results_list')].Details # D_Fallback
            /\ IF differences_found' = differences_found
               THEN Bumped = {} /\ results_list' = results_list
               ELSE /\ differences_found' = differences_found + 1
                    /\ Cardinality(Bumped) = 1
                    /\ Bumped \subseteq CellBuckets
                    /\ \A key \in Bumped : summary_dict'[key] = summary_dict[key] + 1
                    /\ ~cfg.summary_only => Len(results_list') = Len(results_list) + 1]_vars

\* a comparison that folds case is done and found a cell with different text
C29_Witness ==
    /\ pc = "cmp_done"
    /\ ~cfg.case_sensitive
    /\ ~cfg.numeric_tolerance.set
    /\ summary_dict.value_mismatch = 1
    /\ \E rec \in Records :
          /\ rec.Issue_Type = "Value Mismatch"
          /\ rec.Details.msg \in {"Difference at position", "Length differs"}

\* the formula of the column called name at data row r (from 0), in a formula
\* map made for the schema cols
FormulaOf(formulas, cols, r, name) == FormulaAt(formulas, r, IndexOf(cols, name) - 1)

\* every named column holds the same formula text at the same data row in the
\* reference sheet and in the candidate sheet as it was read
SameFormulasByName ==
    \A name \in NameSet(df_A.columns) : \A r \in 0..(MaxRows - 1) :
        FormulaOf(formulas_A, df_A.columns, r, name)
            = FormulaOf(formulas_B, df_B_unaligned.columns, r, name)

\* C30: with compare_formulas on, when the candidate's columns are a
\* permutation of the reference's and every named column holds the same
\* formula text at the same data row on both sides, the comparison after
\* alignment reports no formula mismatch.
C30_FormulasFollowAlignment ==
    (/\ pc = "cmp_done"
     /\ cfg.compare_formulas
     /\ Len(df_B_unaligned.columns) = Len(df_A.columns)
     /\ NameSet(df_B_unaligned.columns) = NameSet(df_A.columns)
     /\ SameFormulasByName) =>
        /\ summary_dict.formula_mismatch = 0
        /\ \A rec \in Records : rec.Issue_Type # "Formula Mismatch"

====
